---- MODULE Spec2Model ----
(***************************************************************************)
(* StarLens: the resumable enrichment job of the Dashboard, the hybrid     *)
(* ranking of performSearch, the lexical and the vector index adapters and *)
(* the backup service, as state machines.                                  *)
(***************************************************************************)
EXTENDS Integers, Sequences, FiniteSets, TLC

(***************************************************************************)
(* Bounds of the model                                                     *)
(***************************************************************************)
NumItems == 8
MaxCrashes == 1
MaxJobs == 2
MaxRerankLen == 2
MaxDocIds == 2
MaxInbox == 1
MaxLimit == 2
MaxRequests == 2
MaxVecIds == 2
MaxEntries == 3
MaxBackupIds == 2
MaxSnapshotLen == 2
MaxRepos == 6
MaxCalls == 4
MaxQueued == 3
PassItems == 5
per_page == 5
MaxPoolLimit == 4
MaxReindexIds == 2
MaxReindexCalls == 2
MaxSearches == 2
MaxInitCalls == 3

(***************************************************************************)
(* Program constants                                                       *)
(***************************************************************************)
INDEX_BATCH_SIZE == 6
AI_BATCH_SIZE == 4
README_CONCURRENCY == 3
INDEX_CONCURRENCY == 3

VARIABLES
  dbDocs,        \* the text fields of the stored repositories, by id
  pRepos,        \* indexRepositories: the repositories it was called with
  pPc,           \* indexRepositories: position
  pStart,        \* start of the current batch in repos
  pGroup,        \* i, the start of the current AI group in the batch
  pSingle,       \* position of the next single call in the group
  pWrite,        \* position of the next repository of the index pool
  readmeMap,     \* ids with an entry in readmeMap
  aiMap,         \* ids with an entry in aiMap
  pThrew,        \* ghost: the AI groups whose batch call threw
  singleCalls,   \* ghost: per id, the single AI calls made
  writeCalls,    \* ghost: per id, how often the index worker ran
  successCount,  \* successCount
  pProcessed,    \* processed
  openai,        \* AIService.openai is set: init was called with an API key
  ghRepos,       \* db.repositories as syncStars reads and writes it, by id
  starred,       \* the listing of starred repositories GitHub returns, in order
  lastSyncedAt,  \* the record 'github_sync' has a last_synced_at
  isIncremental, \* syncStars: isIncremental
  syPc,          \* syncStars: position
  page,          \* syncStars: page
  seenOldCount,  \* syncStars: seenOldCount
  newReposCount, \* syncStars: newReposCount
  syBefore,      \* ghost: db.repositories when syncStars was called
  syPages,       \* ghost: per page fetched, its length and what was done with it
  poPhase,       \* which call of runWithPool is running, if any
  poItems,       \* runWithPool: items.length
  poLimit,       \* runWithPool: limit
  poNext,        \* runWithPool: i
  poRunner,      \* per runner: not started, the index its worker runs on, or done
  poCalls,       \* ghost: per index, the worker invocations made
  pAwait,        \* indexRepositories is suspended at the await of an AI call
  aiInFlight,    \* the AI requests issued and not yet settled
  reindexingId,  \* React state reindexingId; 0 for null
  reRunning,     \* per id, the calls of handleReindexOne that await indexRepositories
  srIssued,      \* the number of calls of performSearch made
  srCall,        \* per call of performSearch, in order of issue: query, mode, position
  srShown,       \* ghost: the call whose list and explanation are displayed; 0 for none
  inputLocked,   \* React state inputLocked
  viPc,          \* per call of VectorService.init that is not a no-op: its position
  vAdded,        \* ghost: the ids indexRepo added to the index since the page was loaded
  vdb,           \* VectorService.vdb: the entries of the LunaVDB index, in order
  initialized,   \* VectorService.initialized
  vEmbedding,    \* the embedding field of the stored repository, by id
  dbRepositories, dbSyncState, dbSettings,  \* the tables of the store
  dbVectorStore, \* the record 'main' of the table vectorStore
  payload,       \* the payload exportAll returned last
  lastImport,    \* ghost: the last call of import, its payload and the store before
  mini,          \* searchWorker: the MiniSearch index, its documents in order
  lexInbox,      \* messages posted to the worker and not yet handled
  lexResp,       \* the last response the worker posted
  requestId,     \* SearchService.requestId
  initPromise,   \* SearchService.initPromise: the request it waits for, its state
  lexSubmitted,  \* ghost: per id, the version last submitted since the last reset
  pending,       \* SearchService.pending: request id and the caller it resolves
  lexOutbox,     \* responses the worker posted, not yet received
  lexSent,       \* ghost: per call of postMessage, the request's id and type
  lexDelivered,  \* ghost: the resolvers run, with the response they got
  sIn,           \* performSearch: query, toggles and collaborator responses
  sPc,           \* performSearch: position
  sRun,          \* 1 for a search, 2 for its repetition on the same inputs
  sStage1,       \* stage1Candidates
  sStage2,       \* stage2Candidates
  sFinal,        \* finalCandidates after the final sort
  sList,         \* ids of the list given to setAllRepos
  sFirstList,    \* ghost: sList of run 1
  sExplain,      \* ids that have an entry in searchExplainMap
  sCalls,        \* ghost: calls made to the lexical, vector and AI services
  sStore,        \* number of items of db.repositories as performSearch reads it
  stored,        \* ids of db.repositories
  enriched,      \* ids whose record has an embedding and ai_tags
  dbJob,         \* the record of db.syncState under key 'index_job'
  resumeJob,     \* React state resumeJob
  indexing,      \* React state indexing
  syncing,       \* React state syncing
  processingRef, \* processingRef.current
  call,          \* per caller: position and locals of its async call chain
  handed,        \* ghost: how often an id was passed to indexRepositories
  firstQueue,    \* ghost: queue of the first job record created
  jobsCreated,   \* ghost: number of job records created by handleIndex
  crashes        \* ghost: number of interruptions (page closed or reloaded)

jobVars == <<stored, enriched, dbJob, resumeJob, indexing, syncing,
             processingRef, call, handed, firstQueue, jobsCreated, crashes>>

searchVars == <<sIn, sPc, sRun, sStage1, sStage2, sFinal, sList, sFirstList,
                sExplain, sCalls, sStore>>

lexVars == <<mini, lexInbox, lexResp, requestId, initPromise, lexSubmitted,
             pending, lexOutbox, lexSent, lexDelivered>>

vecVars == <<vdb, initialized, vEmbedding>>

backupVars == <<dbRepositories, dbSyncState, dbSettings, dbVectorStore, payload,
                lastImport>>

pipeVars == <<pRepos, pPc, pStart, pGroup, pSingle, pWrite, readmeMap, aiMap,
              pThrew, singleCalls, writeCalls, successCount, pProcessed,
              openai>>

syncVars == <<ghRepos, starred, lastSyncedAt, isIncremental, syPc, page,
              seenOldCount, newReposCount, syBefore, syPages>>

poolVars == <<poPhase, poItems, poLimit, poNext, poRunner, poCalls>>

aiVars == <<pAwait, aiInFlight>>

reVars == <<reindexingId, reRunning>>

raceVars == <<srIssued, srCall, srShown, inputLocked>>

initVars == <<viPc, vAdded>>

vars == <<jobVars, searchVars, lexVars, vecVars, backupVars, pipeVars, dbDocs,
          syncVars, poolVars, aiVars, reVars, raceVars, initVars>>

Ids == 1..NumItems
\* one id is left for handleSync to add
InitItems == NumItems - 1
NoJob == [queue |-> <<>>, done |-> -1, total |-> -1]
Callers == {"mount", "user", "sync"}

Min(a, b) == IF a < b THEN a ELSE b

\* Array.prototype.slice(0, n) and slice(n)
Take(s, n) == SubSeq(s, 1, Min(n, Len(s)))
Drop(s, n) == SubSeq(s, Min(n, Len(s)) + 1, Len(s))
Range(s) == {s[i] : i \in 1..Len(s)}

RECURSIVE SortedSeq(_)
\* db.repositories...toArray() returns records in primary key order
SortedSeq(S) ==
  IF S = {} THEN <<>>
  ELSE LET m == CHOOSE x \in S : \A y \in S : x <= y
       IN <<m>> \o SortedSeq(S \ {m})

MkJob(q, d, t) == [queue |-> q, done |-> d, total |-> t]

IdleCall == [pc |-> "idle", remaining |-> <<>>, done |-> 0, processed |-> 0,
             total |-> 0, startQueue |-> <<>>, batchIds |-> <<>>,
             given |-> <<>>,
             cIndexing |-> FALSE, cResumeJob |-> NoJob]

\* Position of a caller inside the loop of resumeIndexJob
InLoop(p) == call[p].pc \in {"loop_read", "loop_index", "loop_put", "clear"}

(***************************************************************************)
(* resumeIndexJob, from its entry to its first await                       *)
(***************************************************************************)
\* the entry without the processingRef check
resumeIndexJobEnterUnguarded(p, q, d, t, c) ==
  /\ processingRef' = TRUE
  /\ indexing' = TRUE
  /\ call' = [call EXCEPT ![p] =
        [c EXCEPT !.pc = IF Len(q) > 0 THEN "loop_read" ELSE "clear",
                  !.remaining = q, !.done = d, !.processed = 0,
                  !.total = t, !.startQueue = q, !.given = <<>>,
                  !.batchIds = Take(q, INDEX_BATCH_SIZE)]]

resumeIndexJobEnter(p, q, d, t, c) ==
  IF processingRef
  THEN /\ call' = [call EXCEPT ![p] = IdleCall]
       /\ UNCHANGED <<processingRef, indexing>>
  ELSE /\ processingRef' = TRUE
       /\ indexing' = TRUE
       /\ call' = [call EXCEPT ![p] =
             [c EXCEPT !.pc = IF Len(q) > 0 THEN "loop_read" ELSE "clear",
                       !.remaining = q, !.done = d, !.processed = 0,
                       !.total = t, !.startQueue = q, !.given = <<>>,
                       !.batchIds = Take(q, INDEX_BATCH_SIZE)]]

\* the page is opened on a store of n repositories, none of them enriched
JobInitOf(n) ==
  /\ stored = 1..n
  /\ enriched = {}
  /\ dbJob = NoJob
  /\ resumeJob = NoJob
  /\ indexing = FALSE
  /\ syncing = FALSE
  /\ processingRef = FALSE
  /\ call = [p \in Callers |-> IF p = "mount" THEN [IdleCall EXCEPT !.pc = "check"]
                                               ELSE IdleCall]
  /\ handed = [i \in Ids |-> 0]
  /\ firstQueue = <<>>
  /\ jobsCreated = 0
  /\ crashes = 0

JobInit == JobInitOf(InitItems)

(***************************************************************************)
(* checkPendingJob: the startup auto-resume                                *)
(***************************************************************************)
\* the persisted queue is started from the beginning: done 0, total its length
checkPendingJobFresh ==
  /\ call["mount"].pc = "check"
  /\ IF dbJob # NoJob /\ Len(dbJob.queue) > 0
     THEN /\ resumeJob' = MkJob(dbJob.queue, 0, Len(dbJob.queue))
          /\ resumeIndexJobEnter("mount", dbJob.queue, 0, Len(dbJob.queue),
                                 call["mount"])
     ELSE /\ call' = [call EXCEPT !["mount"] = IdleCall]
          /\ UNCHANGED <<resumeJob, processingRef, indexing>>
  /\ UNCHANGED <<stored, enriched, dbJob, syncing, handed, firstQueue,
                 jobsCreated, crashes>>

checkPendingJob ==
  /\ call["mount"].pc = "check"
  /\ IF dbJob # NoJob /\ Len(dbJob.queue) > 0
     THEN LET d == dbJob.done
              t == IF dbJob.total # 0 THEN dbJob.total ELSE Len(dbJob.queue)
          IN /\ resumeJob' = MkJob(dbJob.queue, d, t)
             /\ resumeIndexJobEnter("mount", dbJob.queue, d, t, call["mount"])
     ELSE /\ call' = [call EXCEPT !["mount"] = IdleCall]
          /\ UNCHANGED <<resumeJob, processingRef, indexing>>
  /\ UNCHANGED <<stored, enriched, dbJob, syncing, handed, firstQueue,
                 jobsCreated, crashes>>

(***************************************************************************)
(* handleIndex                                                             *)
(***************************************************************************)
\* db.repositories.filter((r) => !r.embedding || !r.ai_tags).toArray()
Unindexed == SortedSeq(stored \ enriched)

\* handleIndex up to its first await, with the indexing and resumeJob values
\* of the render its closure belongs to
handleIndexStart(p, cIndexing, cResumeJob) ==
  IF ~cIndexing /\ cResumeJob # NoJob /\ Len(cResumeJob.queue) > 0
  THEN resumeIndexJobEnter(p, cResumeJob.queue, cResumeJob.done,
                           cResumeJob.total, IdleCall)
  ELSE /\ indexing' = TRUE
       /\ call' = [call EXCEPT ![p] = [IdleCall EXCEPT !.pc = "hi_filter"]]
       /\ UNCHANGED processingRef

\* the Index button: rendered enabled while neither indexing nor syncing
handleIndexClick ==
  /\ call["user"].pc = "idle"
  /\ ~indexing /\ ~syncing
  /\ handleIndexStart("user", indexing, resumeJob)
  /\ UNCHANGED <<stored, enriched, dbJob, resumeJob, syncing, handed,
                 firstQueue, jobsCreated, crashes>>

\* the unindexed query resolves: return when nothing is left, else put the job
handleIndexFiltered(p) ==
  /\ call[p].pc = "hi_filter"
  /\ IF Len(Unindexed) = 0
     THEN call' = [call EXCEPT ![p] = IdleCall]
     ELSE /\ jobsCreated < MaxJobs
          /\ call' = [call EXCEPT ![p].pc = "hi_put", ![p].startQueue = Unindexed]
  /\ UNCHANGED <<stored, enriched, dbJob, resumeJob, indexing, syncing,
                 processingRef, handed, firstQueue, jobsCreated, crashes>>

\* the put of the new job record resolves; setResumeJob; resumeIndexJob is called
handleIndexPut(p) ==
  /\ call[p].pc = "hi_put"
  /\ LET q == call[p].startQueue
     IN /\ dbJob' = MkJob(q, 0, Len(q))
        /\ resumeJob' = MkJob(q, 0, Len(q))
        /\ firstQueue' = IF jobsCreated = 0 THEN q ELSE firstQueue
        /\ jobsCreated' = jobsCreated + 1
        /\ resumeIndexJobEnter(p, q, 0, Len(q), IdleCall)
  /\ UNCHANGED <<stored, enriched, syncing, handed, crashes>>

(***************************************************************************)
(* The loop of resumeIndexJob                                              *)
(***************************************************************************)
\* processed += INDEX_BATCH_SIZE, whatever the length of the batch
ProcessedAfterFixed(p) == call[p].processed + INDEX_BATCH_SIZE

\* processed += batchIds.length
ProcessedAfter(p) == call[p].processed + Len(call[p].batchIds)

\* remaining.slice(INDEX_BATCH_SIZE + 1): one id too many is dropped
RemainingAfterOffByOne(p) == Drop(call[p].remaining, INDEX_BATCH_SIZE + 1)

\* remaining is not sliced: the chunk stays at the head of the queue
RemainingAfterKept(p) == call[p].remaining

\* remaining = remaining.slice(batchIds.length)
RemainingAfter(p) == Drop(call[p].remaining, Len(call[p].batchIds))

\* the records db.repositories.where("id").anyOf(batchIds) finds, in key order
BatchRepos(p) == SelectSeq(call[p].batchIds, LAMBDA i : i \in stored)

\* outcomes of a chunk: no record fails, the first one fails, or all fail
FailChoices(repos) ==
  IF Len(repos) = 0 THEN {{}} ELSE {{}, {repos[1]}, Range(repos)}

\* the batch read resolves and indexRepositories is called with the records
LoopRead(p) ==
  /\ call[p].pc = "loop_read"
  /\ handed' = [i \in Ids |-> IF i \in Range(call[p].batchIds) /\ i \in stored
                              THEN handed[i] + 1 ELSE handed[i]]
  /\ call' = [call EXCEPT ![p].pc = "loop_index",
                          ![p].given = call[p].given \o BatchRepos(p)]
  /\ UNCHANGED <<stored, enriched, dbJob, resumeJob, indexing, syncing,
                 processingRef, firstQueue, jobsCreated, crashes>>

\* indexRepositories resolves: every record of the batch is enriched unless
\* its AI calls or its index write failed; the checkpoint put is issued
LoopIndex(p) ==
  /\ call[p].pc = "loop_index"
  /\ \E failed \in FailChoices(BatchRepos(p)) :
        enriched' = enriched \cup (Range(BatchRepos(p)) \ failed)
  /\ call' = [call EXCEPT
        ![p].pc = "loop_put",
        ![p].processed = ProcessedAfter(p),
        ![p].remaining = RemainingAfter(p)]
  /\ UNCHANGED <<stored, dbJob, resumeJob, indexing, syncing, processingRef,
                 handed, firstQueue, jobsCreated, crashes>>

\* the checkpoint put resolves; setResumeJob; yield; next iteration or clear
LoopPut(p) ==
  /\ call[p].pc = "loop_put"
  /\ LET cp == MkJob(call[p].remaining, call[p].done + call[p].processed,
                     call[p].total)
     IN /\ dbJob' = cp
        /\ resumeJob' = cp
  /\ call' = [call EXCEPT
        ![p].pc = IF Len(call[p].remaining) > 0 THEN "loop_read" ELSE "clear",
        ![p].batchIds = Take(call[p].remaining, INDEX_BATCH_SIZE)]
  /\ UNCHANGED <<stored, enriched, indexing, syncing, processingRef, handed,
                 firstQueue, jobsCreated, crashes>>

\* the delete of the job record resolves; the guard and the flags are released
LoopClear(p) ==
  /\ call[p].pc = "clear"
  /\ dbJob' = NoJob
  /\ resumeJob' = NoJob
  /\ indexing' = FALSE
  /\ processingRef' = FALSE
  /\ call' = [call EXCEPT ![p] = [IdleCall EXCEPT !.pc = "finished",
                                   !.startQueue = call[p].startQueue,
                                   !.given = call[p].given,
                                   !.done = call[p].done]]
  /\ UNCHANGED <<stored, enriched, syncing, handed, firstQueue, jobsCreated,
                 crashes>>

\* the toast and loadRepos after a completed run
RunReturn(p) ==
  /\ call[p].pc = "finished"
  /\ call' = [call EXCEPT ![p] = IdleCall]
  /\ UNCHANGED <<stored, enriched, dbJob, resumeJob, indexing, syncing,
                 processingRef, handed, firstQueue, jobsCreated, crashes>>

\* an awaited store call of the loop rejects: resumeIndexJob has no try block,
\* so the call ends there, with the guard and the flag as they are; handleIndex
\* catches the error and returns
LoopThrows(p) ==
  /\ call[p].pc \in {"loop_read", "loop_put", "clear"}
  /\ call' = [call EXCEPT ![p] = IdleCall]
  /\ UNCHANGED <<stored, enriched, dbJob, resumeJob, indexing, syncing,
                 processingRef, handed, firstQueue, jobsCreated, crashes>>

(***************************************************************************)
(* handleSync                                                              *)
(***************************************************************************)
\* the Sync button: rendered enabled while neither syncing nor indexing
handleSyncClick ==
  /\ call["sync"].pc = "idle"
  /\ ~syncing /\ ~indexing
  /\ syncing' = TRUE
  /\ call' = [call EXCEPT !["sync"] =
        [IdleCall EXCEPT !.pc = "sync_fetch", !.cIndexing = indexing,
                         !.cResumeJob = resumeJob]]
  /\ UNCHANGED <<stored, enriched, dbJob, resumeJob, indexing, processingRef,
                 handed, firstQueue, jobsCreated, crashes>>

\* syncStars resolves with the number of new repositories; handleIndex is
\* called (not awaited) when there are any; finally setSyncing(false)
handleSyncDone ==
  /\ call["sync"].pc = "sync_fetch"
  /\ \E n \in 0..(NumItems - Cardinality(stored)) :
       /\ stored' = 1..(Cardinality(stored) + n)
       /\ IF n > 0
          THEN handleIndexStart("sync", call["sync"].cIndexing,
                                call["sync"].cResumeJob)
          ELSE /\ call' = [call EXCEPT !["sync"] = IdleCall]
               /\ UNCHANGED <<indexing, processingRef>>
  /\ syncing' = FALSE
  /\ UNCHANGED <<enriched, dbJob, resumeJob, handed, firstQueue, jobsCreated,
                 crashes>>

(***************************************************************************)
(* Interruption: the page is closed or reloaded; the stores survive, the   *)
(* component state does not, and the component mounts again                *)
(***************************************************************************)
Interrupt ==
  /\ crashes < MaxCrashes
  /\ crashes' = crashes + 1
  /\ resumeJob' = NoJob
  /\ indexing' = FALSE
  /\ syncing' = FALSE
  /\ processingRef' = FALSE
  /\ call' = [p \in Callers |-> IF p = "mount" THEN [IdleCall EXCEPT !.pc = "check"]
                                                ELSE IdleCall]
  /\ UNCHANGED <<stored, enriched, dbJob, handed, firstQueue, jobsCreated>>

(***************************************************************************)
(* Text helpers of the Dashboard.  A string is a sequence of characters;   *)
(* the alphabet has letters, one upper-case letter, the blank, the hyphen  *)
(* (a token character) and the slash (a separator).                        *)
(***************************************************************************)
ToLower(c) == IF c = "A" THEN "a" ELSE c
IsSpace(c) == c = " "
\* [\p{L}\p{N}#+._-]
IsTokenChar(c) == c \notin {" ", "/"}

RECURSIVE CollapseSpaces(_)
\* replace(/\s+/g, " ")
CollapseSpaces(s) ==
  IF Len(s) = 0 THEN <<>>
  ELSE IF IsSpace(Head(s)) /\ Len(s) > 1 /\ IsSpace(s[2])
       THEN CollapseSpaces(Tail(s))
       ELSE <<Head(s)>> \o CollapseSpaces(Tail(s))

\* String.prototype.trim on a string whose blank runs are single blanks
Trim(s) ==
  LET a == IF Len(s) > 0 /\ IsSpace(s[1]) THEN Tail(s) ELSE s
  IN IF Len(a) > 0 /\ IsSpace(a[Len(a)]) THEN SubSeq(a, 1, Len(a) - 1) ELSE a

normalizeText(value) ==
  Trim(CollapseSpaces([i \in 1..Len(value) |-> ToLower(value[i])]))

RECURSIVE SplitTokens(_, _)
\* split at every run of non-token characters; cur is the token being read
SplitTokens(s, cur) ==
  IF Len(s) = 0 THEN <<cur>>
  ELSE IF IsTokenChar(Head(s))
       THEN SplitTokens(Tail(s), Append(cur, Head(s)))
       ELSE IF Len(s) > 1 /\ ~IsTokenChar(s[2])
            THEN SplitTokens(Tail(s), cur)
            ELSE <<cur>> \o SplitTokens(Tail(s), <<>>)

tokenize(value) ==
  SelectSeq(SplitTokens(normalizeText(value), <<>>), LAMBDA t : Len(t) > 1)

\* String.prototype.includes, startsWith
Includes(s, sub) ==
  \E i \in 1..(Len(s) - Len(sub) + 1) : SubSeq(s, i, i + Len(sub) - 1) = sub
StartsWith(s, sub) ==
  Len(sub) <= Len(s) /\ SubSeq(s, 1, Len(sub)) = sub

RECURSIVE JoinWith(_, _)
\* Array.prototype.join(sep)
JoinWith(ss, sep) ==
  IF Len(ss) = 0 THEN <<>>
  ELSE IF Len(ss) = 1 THEN ss[1]
       ELSE ss[1] \o sep \o JoinWith(Tail(ss), sep)

RECURSIVE Dedup(_)
\* Array.from(new Set(xs)): first occurrences, in order
Dedup(xs) ==
  IF Len(xs) = 0 THEN <<>>
  ELSE LET r == Dedup(SubSeq(xs, 1, Len(xs) - 1))
       IN IF xs[Len(xs)] \in Range(r) THEN r ELSE Append(r, xs[Len(xs)])

RECURSIVE TokenizeAll(_)
\* items.flatMap((item) => tokenize(item))
TokenizeAll(xs) ==
  IF Len(xs) = 0 THEN <<>> ELSE tokenize(Head(xs)) \o TokenizeAll(Tail(xs))

RECURSIVE SumSeq(_)
SumSeq(xs) == IF Len(xs) = 0 THEN 0 ELSE Head(xs) + SumSeq(Tail(xs))

Max(a, b) == IF a > b THEN a ELSE b

\* sum of a[i] * b[i] over the common length; components are in tenths
dotProduct(a, b) ==
  SumSeq([i \in 1..Min(Len(a), Len(b)) |-> a[i] * b[i]])

(***************************************************************************)
(* The item store read by performSearch, and the responses of its          *)
(* collaborators (lexical index, vector index, AI client)                  *)
(***************************************************************************)
Str_ab == <<"a", "b">>
Str_cd == <<"c", "d">>
Str_ab_cd == <<"a", "b", " ", "c", "d">>

Repo(n, f, d, r, t, e) ==
  [name |-> n, full_name |-> f, description |-> d, ai_summary |-> <<>>,
   ai_tags |-> t, topics |-> <<>>, readme_content |-> r, embedding |-> e]

\* db.repositories: embeddings have their components in tenths
Catalog ==
  <<Repo(<<"a", "b">>, <<"o", "/", "a", "b">>, <<>>, <<>>, <<>>, <<10, 0>>),
    Repo(<<"a", "b", "-", "c", "d">>, <<"o", "/", "a", "b", "-", "c", "d">>,
         <<>>, <<>>, <<Str_cd>>, <<>>),
    Repo(<<"e", "e">>, <<"o", "/", "e", "e">>, <<"a", "b">>,
         <<"a", "b", " ", "c", "d", " ", "a", "b">>, <<>>, <<6, 8>>),
    Repo(<<"x", "-", "A", "b">>, <<"o", "/", "x", "-", "A", "b">>, <<>>, <<>>,
         <<>>, <<>>),
    Repo(<<"y", "-", "a", "b">>, <<"o", "/", "y", "-", "a", "b">>, <<>>, <<>>,
         <<>>, <<>>)>>

RepoIds == 1..Len(Catalog)

\* an id the reranker may return although it is no candidate
ForeignId == Len(Catalog) + 1

\* a larger store has, after the items of Catalog, items that are all named
\* 'cd'; their ids follow ForeignId
Filler == Repo(<<"c", "d">>, <<"p", "/", "c", "d">>, <<>>, <<>>, <<>>, <<>>)

RepoOf(i) == IF i \in RepoIds THEN Catalog[i] ELSE Filler

\* db.repositories.toArray() of a store of n items: the ids in key order
SnapshotSeq(n) == [k \in 1..n |-> IF k <= Len(Catalog) THEN k ELSE k + 1]

SnapshotIds(n) == {SnapshotSeq(n)[k] : k \in 1..n}

Queries == {Str_ab, Str_ab_cd, <<" ", "A", "b", " ">>}

\* responses of aiService.rewriteSearchQuery: null, or keywords and must phrases
NoRewrite == [keywords |-> <<>>, must |-> <<>>]
Rewrites == {NoRewrite, [keywords |-> <<Str_cd>>, must |-> <<>>],
             [keywords |-> <<>>, must |-> <<Str_ab>>]}

Hit(i, sc) == [id |-> i, score |-> sc]
\* hit lists of searchService.searchScored per mode
HitScenarios ==
  {[strict |-> <<>>, balanced |-> <<>>, broad |-> <<>>],
   [strict |-> <<>>, balanced |-> <<Hit(3, 2), Hit(1, 1)>>,
    broad |-> <<Hit(3, 2), Hit(1, 1), Hit(4, 1)>>],
   [strict |-> <<Hit(4, 1), Hit(5, 1)>>, balanced |-> <<Hit(3, 2), Hit(1, 1)>>,
    broad |-> <<Hit(2, 3), Hit(4, 1)>>]}

Neighbor(i, k) == [id |-> i, dist9 |-> k]
\* results of vectorService.search: _distance in ninths
VectorScenarios ==
  {<<>>, <<Neighbor(3, 1)>>, <<Neighbor(5, 9), Neighbor(1, 0)>>}

\* aiService.getEmbedding of the semantic query, components in tenths
QueryEmbeddings == {<<10, 0>>, <<6, 8>>}

RECURSIVE SeqsUpTo(_, _)
SeqsUpTo(S, n) ==
  IF n = 0 THEN {<<>>}
  ELSE LET shorter == SeqsUpTo(S, n - 1)
       IN shorter \cup {Append(q, x) : q \in shorter, x \in S}

(***************************************************************************)
(* performSearch, phase 1: query expansion and the retrieval plan          *)
(***************************************************************************)
STAGE1_MAX_CANDIDATES == 30000
STAGE2_TOP_K == 117
STAGE3_TOP_K == 117
\* Number.MAX_SAFE_INTEGER, the aiRank of a candidate the reranker did not place
MAX_SAFE_INTEGER == 2147483647

OriginalQuery(in) == normalizeText(in.query)

\* the normalized original query, its first 6 tokens, keywords and must
\* phrases; normalized, empty ones dropped, deduplicated, at most 12
QueryVariants(in) ==
  LET raw == <<OriginalQuery(in),
               JoinWith(Take(tokenize(in.query), 6), <<" ">>)>>
             \o in.rewrite.keywords \o in.rewrite.must
      norm == [i \in 1..Len(raw) |-> normalizeText(raw[i])]
  IN Take(Dedup(SelectSeq(norm, LAMBDA q : Len(q) > 0)), 12)

QueryTokens(in) ==
  Take(Dedup(tokenize(OriginalQuery(in)) \o TokenizeAll(in.rewrite.keywords)
             \o TokenizeAll(in.rewrite.must)), 24)

Plan(q, m, w) == [query |-> q, mode |-> m, weight100 |-> w]

RECURSIVE DedupPlan(_)
\* the filter on seenPlan: the first plan of every mode::query key
DedupPlan(ps) ==
  IF Len(ps) = 0 THEN <<>>
  ELSE LET r == DedupPlan(SubSeq(ps, 1, Len(ps) - 1))
           l == ps[Len(ps)]
       IN IF \E i \in 1..Len(r) : r[i].mode = l.mode /\ r[i].query = l.query
          THEN r ELSE Append(r, l)

\* weights are in hundredths
FinalPlan(in) ==
  LET o == OriginalQuery(in)
      vs == QueryVariants(in)
      extra == [i \in 1..Len(vs) |->
                  Plan(vs[i], "broad", IF i - 1 < 4 THEN 105 ELSE 75)]
  IN DedupPlan(<<Plan(o, "strict", 240), Plan(o, "balanced", 190),
                 Plan(o, "broad", 130)>>
               \o SelectSeq(extra, LAMBDA pl : pl.query # o))

(***************************************************************************)
(* Stage 1: candidate generation.  Stage-1 scores are in 1/48000.          *)
(***************************************************************************)
NewCandidate(i, delta, seen) ==
  [id |-> i, stage1Score |-> delta, hardPriority |-> 99, titleScore |-> 0,
   descScore |-> 0, readmeScore |-> 0, codeScore |-> 0, blendedScore |-> 0,
   aiRank |-> MAX_SAFE_INTEGER, firstSeen |-> seen]

\* every new candidate gets firstSeen 0: the counter is not advanced
upsertCandidateSameSeen(acc, i, delta) ==
  IF \E k \in 1..Len(acc.cands) : acc.cands[k].id = i
  THEN [acc EXCEPT !.cands = [k \in 1..Len(acc.cands) |->
          IF acc.cands[k].id = i
          THEN [acc.cands[k] EXCEPT !.stage1Score = @ + delta]
          ELSE acc.cands[k]]]
  ELSE [acc EXCEPT !.cands = Append(acc.cands, NewCandidate(i, delta, 0))]

\* acc.cands is candidateMap in insertion order, acc.seenOrder the counter
upsertCandidate(acc, i, delta) ==
  IF \E k \in 1..Len(acc.cands) : acc.cands[k].id = i
  THEN [acc EXCEPT !.cands = [k \in 1..Len(acc.cands) |->
          IF acc.cands[k].id = i
          THEN [acc.cands[k] EXCEPT !.stage1Score = @ + delta]
          ELSE acc.cands[k]]]
  ELSE [cands |-> Append(acc.cands, NewCandidate(i, delta, acc.seenOrder)),
        seenOrder |-> acc.seenOrder + 1]

RECURSIVE UpsertAll(_, _)
\* forEach over a list of [id, delta]: the first half of the list, then the
\* second half
UpsertAll(acc, ds) ==
  IF Len(ds) = 0 THEN acc
  ELSE IF Len(ds) = 1 THEN upsertCandidate(acc, ds[1].id, ds[1].delta)
  ELSE LET h == Len(ds) \div 2
           first == UpsertAll(acc, Take(ds, h))
       IN IF first.seenOrder >= 0 THEN UpsertAll(first, Drop(ds, h)) ELSE first

\* plan.weight * (normalized * 0.75 + rankQuality * 0.25) for every hit
TextDeltas(pl, hits) ==
  LET topScore == IF Len(hits) > 0 /\ hits[1].score # 0 THEN hits[1].score ELSE 1
      total == Max(Len(hits), 1)
  IN [k \in 1..Len(hits) |->
        [id |-> hits[k].id,
         delta |-> pl.weight100 *
            ((IF topScore > 0 THEN (360 * hits[k].score) \div topScore ELSE 0)
             + (120 * (total - (k - 1))) \div total)]]

RECURSIVE PlanDeltas(_, _)
PlanDeltas(in, plans) ==
  IF Len(plans) = 0 THEN <<>>
  ELSE TextDeltas(Head(plans), in.hits[Head(plans).mode])
       \o PlanDeltas(in, Tail(plans))

\* only the name that is, or starts with, the original query is boosted
NameBoostNoVariants(in, i) ==
  LET name == normalizeText(RepoOf(i).name)
      full == normalizeText(RepoOf(i).full_name)
      o == OriginalQuery(in)
  IN IF name = o \/ full = o THEN 168000
     ELSE IF StartsWith(name, o) \/ StartsWith(full, o) THEN 124800
     ELSE 0

\* the recall safety net over allReposSnapshot: 3.5, 2.6 or 1.6
NameBoost(in, i) ==
  LET name == normalizeText(RepoOf(i).name)
      full == normalizeText(RepoOf(i).full_name)
      o == OriginalQuery(in)
      vs == QueryVariants(in)
  IN IF name = o \/ full = o THEN 168000
     ELSE IF StartsWith(name, o) \/ StartsWith(full, o) THEN 124800
     ELSE IF \E k \in 1..Len(vs) : Includes(name, vs[k]) \/ Includes(full, vs[k])
          THEN 76800 ELSE 0

BoostDeltas(in) ==
  LET ids == SnapshotSeq(in.size)
      all == [k \in 1..Len(ids) |->
                [id |-> ids[k], delta |-> NameBoost(in, ids[k])]]
  IN SelectSeq(all, LAMBDA d : d.delta > 0)

\* 1 / (1 + max(0, distance)), in thousandths
VectorSimilarity(n) == 9000 \div (9 + Max(0, n.dist9))

\* 1.8 * (vectorSimilarity * 0.8 + rankQuality * 0.2)
VectorDeltas(in) ==
  LET vr == in.vector
      total == Max(Len(vr), 1)
  IN [k \in 1..Len(vr) |->
        [id |-> vr[k].id,
         delta |-> (69120 * VectorSimilarity(vr[k])) \div 1000
                   + (17280 * (total - (k - 1))) \div total]]

\* vectorSimMap.get(id) || 0: the largest similarity seen for the id
VectorSimOf(in, i) ==
  LET sims == {VectorSimilarity(in.vector[k]) :
                 k \in {j \in 1..Len(in.vector) : in.vector[j].id = i}}
  IN IF sims = {} THEN 0 ELSE CHOOSE x \in sims : \A y \in sims : y <= x

CandidateMap(in) ==
  UpsertAll([cands |-> <<>>, seenOrder |-> 0],
            PlanDeltas(in, FinalPlan(in)) \o BoostDeltas(in) \o VectorDeltas(in))

RECURSIVE SortedIndexes(_, _)
\* the orders of the index set S in which no later index compares before an
\* earlier one, M[a][b] being the comparator's result for the elements a, b
SortedIndexes(M, S) ==
  IF S = {} THEN {<<>>}
  ELSE UNION {{<<a>> \o rest : rest \in SortedIndexes(M, S \ {a})} :
                a \in {x \in S : \A y \in S : M[x][y] <= 0}}

\* the arrays Array.prototype.sort may return for a comparator: every
\* permutation in which no later element compares before an earlier one
\* the comparator being a strict total order on the elements (no two compare
\* equal, the numbers of elements before each are 0 to n - 1), that is the
\* one array in which every element has those before it in front
SortedBy(xs, Cmp(_, _)) ==
  LET n == Len(xs)
      ys == SubSeq(xs, 1, n)
      M == SubSeq([a \in 1..n |->
                     SubSeq([b \in 1..n |-> Cmp(ys[a], ys[b])], 1, n)], 1, n)
      before == SubSeq([a \in 1..n |->
                          Cardinality({b \in 1..n : M[b][a] < 0})], 1, n)
      total == /\ \A a, b \in 1..n :
                    a # b => (M[a][b] # 0 /\ (M[a][b] < 0 <=> M[b][a] > 0))
               /\ {before[a] : a \in 1..n} = 0..(n - 1)
  IN IF total
     THEN {[k \in 1..n |-> ys[CHOOSE a \in 1..n : before[a] = k - 1]]}
     ELSE {[k \in 1..n |-> ys[p[k]]] : p \in SortedIndexes(M, 1..n)}

Stage1Compare(a, b) ==
  IF b.stage1Score # a.stage1Score THEN b.stage1Score - a.stage1Score
  ELSE a.firstSeen - b.firstSeen

\* sorted by stage1Score desc, firstSeen asc; slice(0, STAGE1_MAX_CANDIDATES)
Stage1Candidates(in) ==
  {Take(ys, STAGE1_MAX_CANDIDATES) :
     ys \in SortedBy(CandidateMap(in).cands, Stage1Compare)}

(***************************************************************************)
(* Stage 2: feature scoring.  Sub-scores are in thousandths, blendedScore  *)
(* in 1/240000.                                                            *)
(***************************************************************************)
CountIf(xs, P(_)) == Len(SelectSeq(xs, P))

\* hardPriority by the title tiers, tightened by must phrases in the title
HardPriorityOf(in, i) ==
  LET name == normalizeText(RepoOf(i).name)
      full == normalizeText(RepoOf(i).full_name)
      o == OriginalQuery(in)
      vs == QueryVariants(in)
      must == SelectSeq([k \in 1..Len(in.rewrite.must) |->
                           normalizeText(in.rewrite.must[k])],
                        LAMBDA ph : Len(ph) > 0)
      tier == IF name = o \/ full = o THEN 0
              ELSE IF \E k \in 1..Len(vs) : name = vs[k] \/ full = vs[k] THEN 1
              ELSE IF StartsWith(name, o) \/ StartsWith(full, o) THEN 2
              ELSE IF Includes(name, o) \/ Includes(full, o) THEN 3
              ELSE IF \E k \in 1..Len(vs) :
                         Includes(name, vs[k]) \/ Includes(full, vs[k]) THEN 4
              ELSE 5
  IN IF \E k \in 1..Len(must) : Includes(name, must[k]) \/ Includes(full, must[k])
     THEN Min(tier, 3) ELSE tier

TierScore(tier) ==
  CASE tier = 0 -> 1200 [] tier = 1 -> 1000 [] tier = 2 -> 820
    [] tier = 3 -> 620 [] tier = 4 -> 420 [] OTHER -> 0

\* the title tier before must phrases are looked at
TitleTier(in, i) == HardPriorityOf([in EXCEPT !.rewrite.must = <<>>], i)

ScoreCandidate(in, c) ==
  LET repo == RepoOf(c.id)
      name == normalizeText(repo.name)
      full == normalizeText(repo.full_name)
      desc == normalizeText(repo.description)
      summary == normalizeText(repo.ai_summary)
      tagTopic == normalizeText(JoinWith(repo.ai_tags, <<" ">>) \o <<" ">>
                                \o JoinWith(repo.topics, <<" ">>))
      readme == normalizeText(Take(repo.readme_content, 1200))
      o == OriginalQuery(in)
      toks == QueryTokens(in)
      must == SelectSeq([k \in 1..Len(in.rewrite.must) |->
                           normalizeText(in.rewrite.must[k])],
                        LAMBDA ph : Len(ph) > 0)
      titleTokenHits == CountIf(toks, LAMBDA t : Includes(name, t) \/ Includes(full, t))
      descTokenHits == CountIf(toks, LAMBDA t : Includes(desc, t) \/ Includes(summary, t))
      readmeTokenHits == CountIf(toks, LAMBDA t : Includes(readme, t))
      tagTokenHits == CountIf(toks, LAMBDA t : Includes(tagTopic, t))
      mustTitle == CountIf(must, LAMBDA ph : Includes(name, ph) \/ Includes(full, ph))
      mustDesc == CountIf(must, LAMBDA ph :
                    /\ ~(Includes(name, ph) \/ Includes(full, ph))
                    /\ (Includes(tagTopic, ph) \/ Includes(summary, ph)
                        \/ Includes(desc, ph)))
      mustReadme == CountIf(must, LAMBDA ph :
                    /\ ~(Includes(name, ph) \/ Includes(full, ph))
                    /\ ~(Includes(tagTopic, ph) \/ Includes(summary, ph)
                         \/ Includes(desc, ph))
                    /\ Includes(readme, ph))
      titleScore == TierScore(TitleTier(in, c.id)) * 1000
                    + Min(12 * titleTokenHits, 120) * 2800 + mustTitle * 70000
      descScore == (IF Includes(desc, o) \/ Includes(summary, o) THEN 180000 ELSE 0)
                   + Min(9 * descTokenHits, 160) * 1400 + mustDesc * 48000
      readmeScore == (IF Includes(readme, o) THEN 130000 ELSE 0)
                     + Min(6 * readmeTokenHits, 200) * 800 + mustReadme * 35000
      tagHits == CountIf(repo.ai_tags, LAMBDA tag :
                    \E k \in 1..Len(toks) : Includes(normalizeText(tag), toks[k]))
      codeScore == VectorSimOf(in, c.id) * 220
                   + (IF Len(repo.embedding) > 0
                      THEN Max(0, dotProduct(in.queryEmbedding, repo.embedding)) * 1900
                      ELSE 0)
                   + Min(tagHits, 6) * 24000 + Min(10 * tagTokenHits, 100) * 1600
  IN [c EXCEPT !.hardPriority = HardPriorityOf(in, c.id),
               !.titleScore = titleScore,
               !.descScore = descScore,
               !.readmeScore = readmeScore,
               !.codeScore = codeScore,
               !.blendedScore = c.stage1Score * 70 + titleScore * 600
                                + descScore * 288 + readmeScore * 216
                                + codeScore * 240]

compareCandidates(a, b) ==
  IF a.hardPriority # b.hardPriority THEN a.hardPriority - b.hardPriority
  ELSE IF b.titleScore # a.titleScore THEN b.titleScore - a.titleScore
  ELSE IF b.descScore # a.descScore THEN b.descScore - a.descScore
  ELSE IF b.readmeScore # a.readmeScore THEN b.readmeScore - a.readmeScore
  ELSE IF b.codeScore # a.codeScore THEN b.codeScore - a.codeScore
  ELSE IF a.aiRank # b.aiRank THEN a.aiRank - b.aiRank
  ELSE IF b.blendedScore # a.blendedScore THEN b.blendedScore - a.blendedScore
  ELSE IF b.stage1Score # a.stage1Score THEN b.stage1Score - a.stage1Score
  ELSE a.firstSeen - b.firstSeen

\* one candidate fewer is kept
Stage2CandidatesOneLess(in, stage1) ==
  {Take(ys, STAGE2_TOP_K - 1) :
     ys \in SortedBy([k \in 1..Len(stage1) |-> ScoreCandidate(in, stage1[k])],
                     compareCandidates)}

\* map(score).sort(compareCandidates).slice(0, STAGE2_TOP_K)
Stage2Candidates(in, stage1) ==
  {Take(ys, STAGE2_TOP_K) :
     ys \in SortedBy([k \in 1..Len(stage1) |-> ScoreCandidate(in, stage1[k])],
                     compareCandidates)}

(***************************************************************************)
(* Stage 3: the optional AI rerank, and the final sort                     *)
(***************************************************************************)
\* the position counted from 1
RankOfFromOne(ids, i) ==
  LET at == {k \in 1..Len(ids) : ids[k] = i}
  IN CHOOSE k \in at : \A j \in at : j <= k

\* rankMap: the last position (from 0) at which the reranker returned the id
RankOf(ids, i) ==
  LET at == {k \in 1..Len(ids) : ids[k] = i}
  IN (CHOOSE k \in at : \A j \in at : j <= k) - 1

\* [...reranked, ...others, ...rest] for a non-empty response
Reranked(stage2, ids) ==
  LET top == Take(stage2, STAGE3_TOP_K)
      found == SelectSeq(ids, LAMBDA i : \E k \in 1..Len(top) : top[k].id = i)
      reranked == [k \in 1..Len(found) |->
                     LET item == CHOOSE c \in Range(top) : c.id = found[k]
                     IN [item EXCEPT !.aiRank = RankOf(ids, item.id)]]
      others == SelectSeq(top, LAMBDA c : c.id \notin Range(found))
  IN reranked \o others \o Drop(stage2, Len(top))

\* the throw of rankRepositories is not caught in stage 3: no candidates
MergedUncaught(stage2, resp) ==
  IF resp.kind = "throw" THEN <<>>
  ELSE IF resp.kind = "ids" /\ Len(stage2) > 0 /\ Len(resp.ids) > 0
       THEN Reranked(stage2, resp.ids) ELSE stage2

\* finalCandidates before the final sort; resp.kind is "off" (no rerank
\* requested), "throw" (rankRepositories failed) or "ids" (resp.ids returned)
Merged(stage2, resp) ==
  IF resp.kind = "ids" /\ Len(stage2) > 0 /\ Len(resp.ids) > 0
  THEN Reranked(stage2, resp.ids) ELSE stage2

\* the list is used as merged, without the final sort
FinalCandidatesUnsorted(stage2, resp) == {Merged(stage2, resp)}

\* [...finalCandidates].sort(compareCandidates)
FinalCandidates(stage2, resp) ==
  SortedBy(Merged(stage2, resp), compareCandidates)

(***************************************************************************)
(* performSearch as a state machine                                        *)
(***************************************************************************)
\* typed queries that are empty or blanks only
BlankQueries == {<<>>, <<" ">>, <<" ", " ">>}

\* no call made yet to searchService, vectorService or aiService
NoCalls == [lexical |-> 0, vector |-> 0, ai |-> 0]

\* starred_at (or created_at) of the stored items, as a time
StarredAt == <<3, 5, 1, 4, 2>>

TimeOf(i) == IF i \in RepoIds THEN StarredAt[i] ELSE Len(Catalog) + i

TimeCompare(a, b) == TimeOf(b) - TimeOf(a)

\* loadRepos: db.repositories.toArray() sorted by that time, latest first
loadRepos == SortedBy(SnapshotSeq(sStore), TimeCompare)

NoInput == [query |-> <<>>, size |-> 0, useAiSearch |-> FALSE,
            useAiRerank |-> FALSE,
            rewrite |-> NoRewrite,
            hits |-> [strict |-> <<>>, balanced |-> <<>>, broad |-> <<>>],
            vector |-> <<>>, queryEmbedding |-> <<>>,
            rerank |-> [kind |-> "off", ids |-> <<>>]]

SearchIdle ==
  /\ sIn = NoInput
  /\ sPc = "idle"
  /\ sRun = 1
  /\ sStage1 = <<>>
  /\ sStage2 = <<>>
  /\ sFinal = <<>>
  /\ sList = <<>>
  /\ sFirstList = <<>>
  /\ sExplain = {}
  /\ sCalls = NoCalls

SearchInit == SearchIdle /\ sStore = Len(Catalog)

\* numbers of items named 'cd' in a larger store: none, one, and those that
\* bring the candidates of the query 'cd' to the stage-2 limit
FillerCounts ==
  {0, 1, STAGE2_TOP_K - 3, STAGE2_TOP_K - 2, STAGE2_TOP_K - 1}

\* vector results that have the item named 'ab' at a similarity of 0.9 or 1
NearScenarios ==
  {<<Neighbor(1, 1)>>, <<Neighbor(1, 0)>>, <<Neighbor(3, 0), Neighbor(1, 1)>>}

\* performSearch is called with the query 'cd', AI search off
performSearchPlain ==
  /\ sPc = "idle"
  /\ \E h \in HitScenarios, v \in NearScenarios, e \in QueryEmbeddings :
       sIn' = [NoInput EXCEPT !.query = Str_cd, !.size = sStore,
                              !.useAiRerank = TRUE, !.hits = h,
                              !.vector = v, !.queryEmbedding = e]
  /\ sPc' = "retrieve"
  /\ sRun' = 1
  /\ UNCHANGED <<sStage1, sStage2, sFinal, sList, sFirstList, sExplain,
                 sCalls, sStore>>

\* the query is taken as typed, blanks included
performSearchStartUntrimmed ==
  /\ sPc = "idle"
  /\ \E q \in Queries \cup BlankQueries, ai \in BOOLEAN, rr \in BOOLEAN,
        rw \in Rewrites, h \in HitScenarios, v \in VectorScenarios,
        e \in QueryEmbeddings :
       /\ q # <<>>
       /\ ~ai => (rw = NoRewrite /\ rr)
       /\ sIn' = [NoInput EXCEPT !.query = q, !.size = sStore,
                                 !.useAiSearch = ai,
                                 !.useAiRerank = rr, !.rewrite = rw, !.hits = h,
                                 !.vector = v, !.queryEmbedding = e]
       /\ sCalls' = [sCalls EXCEPT !.ai = @ + (IF ai THEN 1 ELSE 0)]
  /\ sPc' = "retrieve"
  /\ sRun' = 1
  /\ UNCHANGED <<sStage1, sStage2, sFinal, sList, sFirstList, sExplain,
                 sStore>>

\* performSearch is called with a query that is not blank; the snapshot is
\* read and, with AI search on, the rewrite is awaited
performSearchStart ==
  /\ sPc = "idle"
  /\ \E q \in Queries \cup BlankQueries, ai \in BOOLEAN, rr \in BOOLEAN,
        rw \in Rewrites, h \in HitScenarios, v \in VectorScenarios,
        e \in QueryEmbeddings :
       /\ Trim(q) # <<>>
       /\ ~ai => (rw = NoRewrite /\ rr)
       /\ sCalls' = [sCalls EXCEPT !.ai = @ + (IF ai THEN 1 ELSE 0)]
       /\ sIn' = [NoInput EXCEPT !.query = q, !.size = sStore,
                                 !.useAiSearch = ai,
                                 !.useAiRerank = rr, !.rewrite = rw, !.hits = h,
                                 !.vector = v, !.queryEmbedding = e]
  /\ sPc' = "retrieve"
  /\ sRun' = 1
  /\ UNCHANGED <<sStage1, sStage2, sFinal, sList, sFirstList, sExplain,
                 sStore>>

\* a blank query: the explanation is cleared and loadRepos shows the store;
\* this call has no candidates
performSearchEmpty ==
  /\ sPc \in {"idle", "shown"}
  /\ \E q \in Queries \cup BlankQueries :
       /\ Trim(q) = <<>>
       /\ sIn' = [NoInput EXCEPT !.query = q]
  /\ sExplain' = {}
  /\ sList' \in loadRepos
  /\ sPc' = "reset"
  /\ sRun' = 1
  /\ sStage1' = <<>>
  /\ sStage2' = <<>>
  /\ sFinal' = <<>>
  /\ sFirstList' = <<>>
  /\ UNCHANGED <<sCalls, sStore>>

\* one searchScored per plan and the vector search are awaited: stage 1
performSearchRetrieve ==
  /\ sPc = "retrieve"
  /\ sStage1' \in Stage1Candidates(sIn)
  /\ sCalls' = [sCalls EXCEPT !.lexical = @ + Len(FinalPlan(sIn)),
                              !.vector = @ + 1]
  /\ sPc' = "score"
  /\ UNCHANGED <<sIn, sRun, sStage2, sFinal, sList, sFirstList, sExplain,
                 sStore>>

\* the query embedding arrives: stage 2
performSearchScore ==
  /\ sPc = "score"
  /\ sStage2' \in Stage2Candidates(sIn, sStage1)
  /\ sCalls' = [sCalls EXCEPT !.ai = @ + 1]
  /\ sPc' = "rerank"
  /\ UNCHANGED <<sIn, sRun, sStage1, sFinal, sList, sFirstList, sExplain,
                 sStore>>

\* responses of aiService.rankRepositories
RerankResponses ==
  {[kind |-> "throw", ids |-> <<>>]}
  \cup {[kind |-> "ids", ids |-> ids] :
          ids \in SeqsUpTo(RepoIds \cup {ForeignId}, MaxRerankLen)}

\* stage 3, the final sort and setAllRepos; a repetition gets the response
\* the first run got
performSearchRerank ==
  /\ sPc = "rerank"
  /\ \E resp \in RerankResponses \cup {NoInput.rerank} :
       /\ IF sRun = 1
          THEN (resp.kind = "off") <=>
                 ~(sIn.useAiSearch /\ sIn.useAiRerank /\ Len(sStage2) > 0)
          ELSE resp = sIn.rerank
       /\ sIn' = [sIn EXCEPT !.rerank = resp]
       /\ sFinal' \in FinalCandidates(sStage2, resp)
       /\ sCalls' = [sCalls EXCEPT !.ai = @ + (IF resp.kind = "off" THEN 0 ELSE 1)]
  /\ sExplain' = {sFinal'[k].id : k \in 1..Len(sFinal')}
  /\ sList' = IF Len(sFinal') > 0 THEN [k \in 1..Len(sFinal') |-> sFinal'[k].id]
              ELSE SnapshotSeq(sIn.size)
  /\ sPc' = "shown"
  /\ UNCHANGED <<sRun, sStage1, sStage2, sFirstList, sStore>>

\* the same search is issued again against the unchanged stores and indexes
performSearchAgain ==
  /\ sPc = "shown"
  /\ sRun = 1
  /\ sFirstList' = sList
  /\ sRun' = 2
  /\ sPc' = "retrieve"
  /\ UNCHANGED <<sIn, sStage1, sStage2, sFinal, sList, sExplain, sCalls,
                 sStore>>

\* the next query
performSearchReset ==
  /\ (sPc = "shown" /\ sRun = 2) \/ sPc = "reset"
  /\ sIn' = NoInput
  /\ sPc' = "idle"
  /\ sRun' = 1
  /\ sStage1' = <<>>
  /\ sStage2' = <<>>
  /\ sFinal' = <<>>
  /\ sList' = <<>>
  /\ sFirstList' = <<>>
  /\ sExplain' = {}
  /\ sCalls' = NoCalls
  /\ UNCHANGED sStore

(***************************************************************************)
(* The lexical index: MiniSearch as the worker uses it.  A document is an  *)
(* id with the terms of its fields; the index keeps its documents in the   *)
(* order they were added.                                                  *)
(***************************************************************************)
DocIds == 1..MaxDocIds
NoDoc == <<>>
Str_abce == <<"a", "b", "c", "e">>
Str_abcf == <<"a", "b", "c", "f">>
Str_zz == <<"z", "z">>
\* the versions a document can have in the store
DocVersions == {<<Str_ab>>, <<Str_abce, Str_cd>>}
LexQueries == {<<>>, <<" ">>, Str_ab, Str_abcf, Str_cd \o <<" ">> \o Str_ab, Str_zz}
Modes == {"strict", "balanced", "broad"}

HasDoc(index, i) == \E k \in 1..Len(index) : index[k].id = i

\* MiniSearch.add: throws on a duplicate id, else appends
MiniAdd(index, doc) ==
  IF HasDoc(index, doc.id) THEN [threw |-> TRUE, index |-> index]
  ELSE [threw |-> FALSE, index |-> Append(index, doc)]

\* MiniSearch.discard
MiniDiscard(index, i) == SelectSeq(index, LAMBDA d : d.id # i)

\* MiniSearch.replace: discard, then add
MiniReplace(index, doc) == Append(MiniDiscard(index, doc.id), doc)

\* typeof index.replace === 'function', typeof index.discard === 'function':
\* both exist from MiniSearch 6 on
MiniHasReplace == TRUE
MiniHasDiscard == TRUE

\* on a duplicate id the old document is kept and the new one dropped
AddOrReplaceKeepOld(index, doc) ==
  [threw |-> FALSE, index |-> MiniAdd(index, doc).index]

\* the body of docs.forEach in handleBuild
AddOrReplace(index, doc) ==
  IF ~MiniAdd(index, doc).threw THEN MiniAdd(index, doc)
  ELSE IF MiniHasReplace THEN [threw |-> FALSE, index |-> MiniReplace(index, doc)]
  ELSE IF MiniHasDiscard
       THEN MiniAdd(MiniDiscard(index, doc.id), doc)
       ELSE MiniAdd(index, doc)

RECURSIVE AddDocs(_, _)
\* docs.forEach: an exception ends the loop
AddDocs(index, docs) ==
  IF Len(docs) = 0 THEN [threw |-> FALSE, index |-> index]
  ELSE LET r == AddOrReplace(index, Head(docs))
       IN IF r.threw THEN r ELSE AddDocs(r.index, Tail(docs))

\* mini is null before the first initMini, which makes an empty index
NullMini == [isNull |-> TRUE, docs |-> <<>>]
NewMini(docs) == [isNull |-> FALSE, docs |-> docs]

RECURSIVE AddDocsUntil(_, _, _)
\* docs.forEach stopped after n documents
AddDocsUntil(index, docs, n) ==
  IF Len(docs) = 0 \/ n = 0 THEN [threw |-> FALSE, index |-> index]
  ELSE LET r == AddOrReplace(index, Head(docs))
       IN IF r.threw THEN r ELSE AddDocsUntil(r.index, Tail(docs), n - 1)

\* the index is left after the first document of a request
handleBuildPartly(m, docs, reset) ==
  AddDocsUntil(IF m.isNull \/ reset THEN <<>> ELSE m.docs, docs, 1)

handleBuild(m, docs, reset) ==
  AddDocs(IF m.isNull \/ reset THEN <<>> ELSE m.docs, docs)

(***************************************************************************)
(* MiniSearch.search                                                       *)
(***************************************************************************)
\* combineWith, prefix, and the largest edit distance allowed for a term:
\* round(length * fuzzy), fuzzy 0.2 above 3 characters (balanced), 0.35 above
\* 2 characters (broad), none in strict mode
getSearchOptions(mode) ==
  [combineWith |-> IF mode = "strict" THEN "AND" ELSE "OR",
   prefix |-> TRUE,
   fuzzy100 |-> IF mode = "strict" THEN 0 ELSE IF mode = "broad" THEN 35 ELSE 20,
   fuzzyAbove |-> IF mode = "broad" THEN 2 ELSE 3]

MaxDistance(opts, term) ==
  IF Len(term) > opts.fuzzyAbove THEN (Len(term) * opts.fuzzy100 + 50) \div 100
  ELSE 0

\* edit distance at most 1: one substitution, insertion or deletion
EditLe1(a, b) ==
  \/ a = b
  \/ /\ Len(a) = Len(b)
     /\ Cardinality({k \in 1..Len(a) : a[k] # b[k]}) = 1
  \/ /\ Len(a) = Len(b) + 1
     /\ \E k \in 1..Len(a) : SubSeq(a, 1, k - 1) \o SubSeq(a, k + 1, Len(a)) = b
  \/ /\ Len(b) = Len(a) + 1
     /\ \E k \in 1..Len(b) : SubSeq(b, 1, k - 1) \o SubSeq(b, k + 1, Len(b)) = a

\* how well a query term matches a document: 4 exact, 2 prefix, 1 fuzzy
TermScore(opts, term, doc) ==
  IF \E k \in 1..Len(doc.terms) : doc.terms[k] = term THEN 4
  ELSE IF opts.prefix /\ \E k \in 1..Len(doc.terms) : StartsWith(doc.terms[k], term)
       THEN 2
  ELSE IF MaxDistance(opts, term) >= 1
          /\ \E k \in 1..Len(doc.terms) : EditLe1(doc.terms[k], term)
       THEN 1
  ELSE 0

\* the terms of a query string
QueryTerms(query) ==
  SelectSeq(SplitTokens(normalizeText(query), <<>>), LAMBDA t : Len(t) > 0)

DocScore(opts, query, doc) ==
  LET ts == QueryTerms(query)
      sc == [k \in 1..Len(ts) |-> TermScore(opts, ts[k], doc)]
  IN IF Len(ts) = 0 THEN 0
     ELSE IF opts.combineWith = "AND" /\ \E k \in 1..Len(ts) : sc[k] = 0 THEN 0
     ELSE SumSeq(sc)

RECURSIVE ByScore(_, _)
\* the matches from the best score down, documents of equal score in index order
ByScore(hits, top) ==
  IF top = 0 THEN <<>>
  ELSE SelectSeq(hits, LAMBDA h : h.score = top) \o ByScore(hits, top - 1)

MiniSearchResults(index, query, opts) ==
  LET all == [k \in 1..Len(index) |->
                [id |-> index[k].id, score |-> DocScore(opts, query, index[k])]]
  IN ByScore(SelectSeq(all, LAMBDA h : h.score > 0), 4 * Len(QueryTerms(query)))

\* strict results are returned as they are, also when there are none
handleSearchNoFallback(m, query, limit, mode) ==
  IF Len(normalizeText(query)) = 0 THEN <<>>
  ELSE Take(MiniSearchResults(m.docs, query,
                              getSearchOptions(mode)), limit)

handleSearch(m, query, limit, mode) ==
  LET index == m.docs
      first == MiniSearchResults(index, query, getSearchOptions(mode))
      results == IF Len(first) = 0 /\ mode = "strict"
                 THEN MiniSearchResults(index, query, getSearchOptions("balanced"))
                 ELSE first
  IN IF Len(normalizeText(query)) = 0 THEN <<>> ELSE Take(results, limit)

(***************************************************************************)
(* SearchService and the worker's message handler                          *)
(***************************************************************************)
NoResp == [id |-> 0, type |-> "none", hits |-> <<>>, query |-> <<>>, limit |-> 0,
           mode |-> "none", replaced |-> FALSE]

BuildMsg(n, docs, reset) ==
  [id |-> n, type |-> "build", docs |-> docs, reset |-> reset,
   query |-> <<>>, limit |-> 0, mode |-> "none"]

SearchMsg(n, query, limit, mode) ==
  [id |-> n, type |-> "search", docs |-> <<>>, reset |-> FALSE,
   query |-> query, limit |-> limit, mode |-> mode]

RECURSIVE StoreDocs(_, _)
\* repos.map(...) over db.repositories.toArray(): the stored documents by id
StoreDocs(store, i) ==
  IF i > MaxDocIds THEN <<>>
  ELSE (IF store[i] = NoDoc THEN <<>> ELSE <<[id |-> i, terms |-> store[i]]>>)
       \o StoreDocs(store, i + 1)

NoPromise == [req |-> 0, state |-> "none"]
InitResolved == initPromise.state = "resolved"

LexInit ==
  /\ mini = NullMini
  /\ lexInbox = <<>>
  /\ lexResp = NoResp
  /\ requestId = 0
  /\ initPromise = NoPromise
  /\ lexSubmitted = [i \in DocIds |-> NoDoc]
  /\ pending = {}
  /\ lexOutbox = <<>>
  /\ lexSent = <<>>
  /\ lexDelivered = <<>>

\* this.pending.set(msg.id, resolve) in the call of postMessage that follows
\* the calls made so far
PendingSet(n) ==
  {e \in pending : e.id # n} \cup {[id |-> n, caller |-> Len(lexSent) + 1]}

\* postMessage: the resolver is registered and the request goes to the worker
Post(msg) ==
  /\ pending' = PendingSet(msg.id)
  /\ lexInbox' = Append(lexInbox, msg)
  /\ lexSent' = Append(lexSent, [id |-> msg.id, type |-> msg.type])

\* how many requests a run of the model makes, and how many wait at the worker
LexCap == [requests |-> MaxRequests, inbox |-> MaxInbox]
WideCap == [requests |-> MaxCalls, inbox |-> MaxQueued]
CanPost(cap) == requestId < cap.requests /\ Len(lexInbox) < cap.inbox

\* SearchService.init: the first call, or reindexAll's forced one; store is
\* what db.repositories.toArray() reads, a version or nothing for each id
initBuildIn(cap, force, store) ==
  /\ initPromise = NoPromise \/ force
  /\ CanPost(cap)
  /\ requestId' = requestId + 1
  /\ initPromise' = [req |-> requestId + 1, state |-> "pending"]
  /\ Post(BuildMsg(requestId + 1, StoreDocs(store, 1), TRUE))
  /\ lexSubmitted' = store
  /\ UNCHANGED <<mini, lexResp, lexOutbox, lexDelivered>>

initBuild(force, store) == initBuildIn(LexCap, force, store)

init ==
  \E force \in BOOLEAN, store \in [DocIds -> DocVersions \cup {NoDoc}] :
    initBuild(force, store)

\* SearchService.indexRepo, after its await of init()
indexRepoIn(cap, ids, versions) ==
  \E i \in ids, v \in versions :
    /\ InitResolved
    /\ CanPost(cap)
    /\ requestId' = requestId + 1
    /\ Post(BuildMsg(requestId + 1, <<[id |-> i, terms |-> v]>>, FALSE))
    /\ lexSubmitted' = [lexSubmitted EXCEPT ![i] = v]
    /\ UNCHANGED <<mini, lexResp, initPromise, lexOutbox, lexDelivered>>

indexRepo == indexRepoIn(LexCap, DocIds, DocVersions)

\* SearchService.searchScored, up to its post of the search request
searchScoredIn(cap, queries, limits, modes) ==
  \E query \in queries, limit \in limits, mode \in modes :
    /\ Len(normalizeText(query)) > 0
    /\ InitResolved
    /\ CanPost(cap)
    /\ requestId' = requestId + 1
    /\ Post(SearchMsg(requestId + 1, query, limit, mode))
    /\ UNCHANGED <<mini, lexResp, initPromise, lexSubmitted, lexOutbox,
                   lexDelivered>>

searchScored == searchScoredIn(LexCap, LexQueries, 1..MaxLimit, Modes)

\* the resolver of the request's promise runs on the response
Resolve(resp) ==
  IF initPromise.req = resp.id
  THEN [initPromise EXCEPT !.state =
          IF resp.type = "error" THEN "rejected" ELSE "resolved"]
  ELSE initPromise

\* self.onmessage for a build request
onmessageBuild ==
  /\ Len(lexInbox) > 0
  /\ Head(lexInbox).type = "build"
  /\ LET msg == Head(lexInbox)
         r == handleBuild(mini, msg.docs, msg.reset)
         resp == [NoResp EXCEPT !.id = msg.id,
                    !.type = IF r.threw THEN "error" ELSE "ready",
                    !.replaced = /\ ~msg.reset
                                 /\ \E k \in 1..Len(msg.docs) :
                                      HasDoc(mini.docs, msg.docs[k].id)]
     IN /\ mini' = NewMini(r.index)
        /\ lexResp' = resp
        /\ lexOutbox' = Append(lexOutbox, [id |-> resp.id, type |-> resp.type])
  /\ lexInbox' = Tail(lexInbox)
  /\ UNCHANGED <<requestId, initPromise, lexSubmitted, pending, lexSent,
                 lexDelivered>>

\* self.onmessage for a search request
onmessageSearch ==
  /\ Len(lexInbox) > 0
  /\ Head(lexInbox).type = "search"
  /\ LET msg == Head(lexInbox)
     IN /\ mini' = NewMini(mini.docs)
        /\ lexResp' = [NoResp EXCEPT !.id = msg.id, !.type = "searchResult",
                         !.hits = handleSearch(mini, msg.query, msg.limit, msg.mode),
                         !.query = msg.query, !.limit = msg.limit,
                         !.mode = msg.mode]
        /\ lexOutbox' = Append(lexOutbox, [id |-> msg.id, type |-> "searchResult"])
  /\ lexInbox' = Tail(lexInbox)
  /\ UNCHANGED <<requestId, initPromise, lexSubmitted, pending, lexSent,
                 lexDelivered>>

\* the listener finds an entry for the response's id and leaves it there
onResponseKeep ==
  /\ Len(lexOutbox) > 0
  /\ LET resp == Head(lexOutbox)
         es == {e \in pending : e.id = resp.id}
     IN /\ pending' = pending
        /\ lexDelivered' =
             IF es = {} THEN lexDelivered
             ELSE Append(lexDelivered,
                         [caller |-> (CHOOSE e \in es : TRUE).caller,
                          id |-> resp.id, type |-> resp.type])
        /\ initPromise' = IF es = {} THEN initPromise ELSE Resolve(resp)
  /\ lexOutbox' = Tail(lexOutbox)
  /\ UNCHANGED <<mini, lexInbox, lexResp, requestId, lexSubmitted, lexSent>>

\* the 'message' listener of the worker: the resolver registered under the
\* response's id is removed from pending and run with the response
onResponse ==
  /\ Len(lexOutbox) > 0
  /\ LET resp == Head(lexOutbox)
         es == {e \in pending : e.id = resp.id}
     IN /\ pending' = pending \ es
        /\ lexDelivered' =
             IF es = {} THEN lexDelivered
             ELSE Append(lexDelivered,
                         [caller |-> (CHOOSE e \in es : TRUE).caller,
                          id |-> resp.id, type |-> resp.type])
        /\ initPromise' = IF es = {} THEN initPromise ELSE Resolve(resp)
  /\ lexOutbox' = Tail(lexOutbox)
  /\ UNCHANGED <<mini, lexInbox, lexResp, requestId, lexSubmitted, lexSent>>

(***************************************************************************)
(* The vector index.  LunaVDB is a compiled library: add appends the       *)
(* entries it is given, remove deletes the entries of the given ids, and   *)
(* serialize writes the number of entries and then each entry.             *)
(***************************************************************************)
VecIds == 1..MaxVecIds
NoEmbedding == <<>>
Embeddings == {<<3, 4>>, <<4, 3>>}
VECTOR_SNAPSHOT_VERSION == [t |-> "string", v |-> "v1"]
UndefinedVersion == [t |-> "undefined", v |-> ""]
NoRecord == [present |-> FALSE, version |-> UndefinedVersion,
             hasSnapshot |-> FALSE, snapshot |-> <<>>]

LunaAdd(index, entries) == index \o entries

LunaRemove(index, ids) == SelectSeq(index, LAMBDA e : e.id \notin ids)

RECURSIVE EntryBytes(_)
EntryBytes(index) ==
  IF Len(index) = 0 THEN <<>>
  ELSE <<Head(index).id>> \o Head(index).embeddings \o EntryBytes(Tail(index))

LunaSerialize(index) == <<Len(index)>> \o EntryBytes(index)

LunaDeserialize(bytes) ==
  [k \in 1..bytes[1] |->
     [id |-> bytes[3 * k - 1], embeddings |-> <<bytes[3 * k], bytes[3 * k + 1]>>]]

\* VectorService.init: a snapshot of the current version is loaded, anything
\* else leaves a fresh index
LoadedIndex(record) ==
  IF record.present /\ record.hasSnapshot /\ record.version = VECTOR_SNAPSHOT_VERSION
  THEN LunaDeserialize(record.snapshot)
  ELSE <<>>

VecInit ==
  /\ vdb = <<>>
  /\ initialized = FALSE
  /\ vEmbedding = [i \in VecIds |-> NoEmbedding]

vectorInit ==
  /\ ~initialized
  /\ vdb' = LoadedIndex(dbVectorStore)
  /\ initialized' = TRUE
  /\ UNCHANGED <<vEmbedding, dbVectorStore>>

\* this.vdb.add({embeddings: [{id, embeddings: embedding}]})
Indexed(index, i, embedding) ==
  LunaAdd(index, <<[id |-> i, embeddings |-> embedding]>>)

\* VectorService.indexRepo: init if needed, the stored embedding or a new one
\* that is stored, then add
vectorIndexRepo ==
  \E i \in VecIds, fresh \in Embeddings :
    LET index == IF initialized THEN vdb ELSE LoadedIndex(dbVectorStore)
        embedding == IF vEmbedding[i] = NoEmbedding THEN fresh ELSE vEmbedding[i]
    IN /\ Len(index) < MaxEntries
       /\ vEmbedding[i] = NoEmbedding \/ fresh = vEmbedding[i]
       /\ initialized' = TRUE
       /\ vEmbedding' = [vEmbedding EXCEPT ![i] = embedding]
       /\ vdb' = Indexed(index, i, embedding)
       /\ UNCHANGED dbVectorStore

\* VectorService.save
vectorSave ==
  /\ initialized
  /\ dbVectorStore' = [present |-> TRUE, version |-> VECTOR_SNAPSHOT_VERSION,
                       hasSnapshot |-> TRUE, snapshot |-> LunaSerialize(vdb)]
  /\ UNCHANGED <<vdb, initialized, vEmbedding>>

\* the page is loaded again: the service starts without an index
vectorReload ==
  /\ initialized
  /\ vdb' = <<>>
  /\ initialized' = FALSE
  /\ UNCHANGED <<vEmbedding, dbVectorStore>>

(***************************************************************************)
(* VectorService.init called while another call of it is running.  A call  *)
(* that finds initialized set returns at once; the others create a fresh   *)
(* index before any of them has read the snapshot record.                  *)
(***************************************************************************)
InitCalls == 1..MaxInitCalls

VecInitIdle ==
  /\ viPc = [c \in InitCalls |-> "none"]
  /\ vAdded = {}

\* init(): initialized is false; ensureWasm; this.vdb = new this.lunaCtor();
\* the read of the record 'main' is awaited
initCall(c) ==
  /\ ~initialized
  /\ viPc[c] = "none"
  /\ viPc' = [viPc EXCEPT ![c] = "get"]
  /\ vdb' = <<>>
  /\ UNCHANGED <<initialized, vEmbedding, dbVectorStore, vAdded>>

\* the read resolves: a snapshot of the current version replaces the index;
\* this.initialized = true
initLoaded(c) ==
  /\ viPc[c] = "get"
  /\ viPc' = [viPc EXCEPT ![c] = "done"]
  /\ vdb' = IF dbVectorStore.present /\ dbVectorStore.hasSnapshot
               /\ dbVectorStore.version = VECTOR_SNAPSHOT_VERSION
            THEN LunaDeserialize(dbVectorStore.snapshot)
            ELSE vdb
  /\ initialized' = TRUE
  /\ UNCHANGED <<vEmbedding, dbVectorStore, vAdded>>

\* indexRepo of a repository once initialized is set: the stored embedding or
\* a new one, and this.vdb.add
indexRepoAdd ==
  /\ initialized
  /\ Len(vdb) < MaxEntries
  /\ \E i \in VecIds \ vAdded, fresh \in Embeddings :
       LET embedding == IF vEmbedding[i] = NoEmbedding THEN fresh ELSE vEmbedding[i]
       IN /\ vEmbedding[i] = NoEmbedding \/ fresh = vEmbedding[i]
          /\ vEmbedding' = [vEmbedding EXCEPT ![i] = embedding]
          /\ vdb' = Indexed(vdb, i, embedding)
          /\ vAdded' = vAdded \cup {i}
  /\ UNCHANGED <<initialized, dbVectorStore, viPc>>

\* the page is loaded again: a new service, no call of init is running
pageReloaded ==
  /\ vectorReload
  /\ \A c \in InitCalls : viPc[c] # "get"
  /\ viPc' = [c \in InitCalls |-> "none"]
  /\ vAdded' = {}

(***************************************************************************)
(* Backup: exportAll and import over the four tables of the store          *)
(***************************************************************************)
BACKUP_VERSION == [t |-> "string", v |-> "1"]
BackupIds == 1..MaxBackupIds
Bytes == {0, 77, 255}
Pad == 64

\* btoa over the bytes: three bytes make four characters, the characters are
\* their numbers in the base64 alphabet, Pad is "="
RECURSIVE bufferToBase64(_)
bufferToBase64(bytes) ==
  IF Len(bytes) = 0 THEN <<>>
  ELSE IF Len(bytes) = 1
       THEN <<bytes[1] \div 4, (bytes[1] % 4) * 16, Pad, Pad>>
  ELSE IF Len(bytes) = 2
       THEN <<bytes[1] \div 4, (bytes[1] % 4) * 16 + bytes[2] \div 16,
              (bytes[2] % 16) * 4, Pad>>
  ELSE <<bytes[1] \div 4, (bytes[1] % 4) * 16 + bytes[2] \div 16,
         (bytes[2] % 16) * 4 + bytes[3] \div 64, bytes[3] % 64>>
       \o bufferToBase64(SubSeq(bytes, 4, Len(bytes)))

RECURSIVE base64ToBuffer(_)
\* atob and the copy of its characters into bytes
base64ToBuffer(b64) ==
  IF Len(b64) < 4 THEN <<>>
  ELSE (IF b64[3] = Pad THEN <<b64[1] * 4 + b64[2] \div 16>>
        ELSE IF b64[4] = Pad
             THEN <<b64[1] * 4 + b64[2] \div 16, (b64[2] % 16) * 16 + b64[3] \div 4>>
        ELSE <<b64[1] * 4 + b64[2] \div 16, (b64[2] % 16) * 16 + b64[3] \div 4,
               (b64[3] % 4) * 64 + b64[4]>>)
       \o base64ToBuffer(SubSeq(b64, 5, Len(b64)))

Store == [repositories |-> dbRepositories, syncState |-> dbSyncState,
          settings |-> dbSettings, vectorStore |-> dbVectorStore]

NullPayload == [isNull |-> TRUE, version |-> UndefinedVersion, repositories |-> {},
                syncState |-> {}, settings |-> {}, vectorStore |-> NoRecord]

\* backupService.exportAll
ExportedPayload(store) ==
  [isNull |-> FALSE, version |-> BACKUP_VERSION,
   repositories |-> store.repositories, syncState |-> store.syncState,
   settings |-> store.settings,
   vectorStore |->
     IF store.vectorStore.present
     THEN [present |-> TRUE, version |-> store.vectorStore.version,
           hasSnapshot |-> store.vectorStore.hasSnapshot,
           snapshot |-> IF store.vectorStore.hasSnapshot
                        THEN bufferToBase64(store.vectorStore.snapshot) ELSE <<>>]
     ELSE NoRecord]

\* only a missing payload is refused
ImportRejectsNullOnly(p) == p.isNull

\* !payload || payload.version !== BACKUP_VERSION
ImportRejects(p) == p.isNull \/ p.version # BACKUP_VERSION

\* the transaction of import: the tables are cleared, then filled from the payload
Imported(p) ==
  [repositories |-> p.repositories, syncState |-> p.syncState,
   settings |-> p.settings,
   vectorStore |->
     IF p.vectorStore.present /\ p.vectorStore.hasSnapshot
        /\ Len(p.vectorStore.snapshot) > 0
     THEN [present |-> TRUE, version |-> p.vectorStore.version, hasSnapshot |-> TRUE,
           snapshot |-> base64ToBuffer(p.vectorStore.snapshot)]
     ELSE NoRecord]

\* the records a table can hold: repositories by id with one of two contents
RepositoryTables ==
  {t \in SUBSET (BackupIds \X {"a", "b"}) :
     \A x, y \in t : x[1] = y[1] => x = y}
SyncStates == {{}, {"github_sync"}}
SettingsTables == {{}, {"user_settings"}}
RECURSIVE ByteSeqs(_)
ByteSeqs(n) ==
  IF n = 0 THEN {<<>>}
  ELSE ByteSeqs(n - 1) \cup
       {Append(s, b) : s \in {x \in ByteSeqs(n - 1) : Len(x) = n - 1}, b \in Bytes}
VectorRecords ==
  {NoRecord}
  \cup {[present |-> TRUE, version |-> v, hasSnapshot |-> TRUE, snapshot |-> b] :
          v \in {VECTOR_SNAPSHOT_VERSION, UndefinedVersion},
          b \in ByteSeqs(MaxSnapshotLen)}
  \cup {[present |-> TRUE, version |-> v, hasSnapshot |-> FALSE, snapshot |-> <<>>] :
          v \in {VECTOR_SNAPSHOT_VERSION, UndefinedVersion}}

\* the payloads of backup files that were not exported from this store
FilePayloads ==
  {NullPayload} \cup
  {[isNull |-> FALSE, version |-> v, repositories |-> {<<1, "b">>},
    syncState |-> {}, settings |-> {"user_settings"}, vectorStore |-> NoRecord] :
     v \in {BACKUP_VERSION, UndefinedVersion, [t |-> "string", v |-> "2"],
            [t |-> "string", v |-> "1.0"], [t |-> "number", v |-> "1"]}}

NoImport == [result |-> "none", payload |-> NullPayload,
             before |-> [repositories |-> {}, syncState |-> {}, settings |-> {},
                         vectorStore |-> NoRecord]]

\* the store is empty before the first sync
EmptyStoreInit ==
  /\ dbRepositories = {}
  /\ dbSyncState = {}
  /\ dbSettings = {}
  /\ dbVectorStore = NoRecord
  /\ payload = NullPayload
  /\ lastImport = NoImport

\* any store the program has filled
BackupInit ==
  /\ dbRepositories \in RepositoryTables
  /\ dbSyncState \in SyncStates
  /\ dbSettings \in SettingsTables
  /\ dbVectorStore \in VectorRecords
  /\ payload = NullPayload
  /\ lastImport = NoImport

exportAll ==
  /\ payload' = ExportedPayload(Store)
  /\ UNCHANGED <<dbRepositories, dbSyncState, dbSettings, dbVectorStore, lastImport>>

\* the writes of the transaction, in order: four clears, then a put for each
\* part of the payload that is not empty
WritesOf(p) ==
  <<"clearRepositories", "clearSyncState", "clearSettings", "clearVectorStore">>
  \o (IF p.repositories # {} THEN <<"putRepositories">> ELSE <<>>)
  \o (IF p.syncState # {} THEN <<"putSyncState">> ELSE <<>>)
  \o (IF p.settings # {} THEN <<"putSettings">> ELSE <<>>)
  \o (IF Imported(p).vectorStore.present THEN <<"putVectorStore">> ELSE <<>>)

\* one write of the transaction, on tables that hold one record per key
Written(store, p, w) ==
  CASE w = "clearRepositories" -> [store EXCEPT !.repositories = {}]
    [] w = "clearSyncState" -> [store EXCEPT !.syncState = {}]
    [] w = "clearSettings" -> [store EXCEPT !.settings = {}]
    [] w = "clearVectorStore" -> [store EXCEPT !.vectorStore = NoRecord]
    [] w = "putRepositories" ->
         [store EXCEPT !.repositories =
            {x \in @ : \A y \in p.repositories : y[1] # x[1]} \cup p.repositories]
    [] w = "putSyncState" -> [store EXCEPT !.syncState = @ \cup p.syncState]
    [] w = "putSettings" -> [store EXCEPT !.settings = @ \cup p.settings]
    [] w = "putVectorStore" -> [store EXCEPT !.vectorStore = Imported(p).vectorStore]

RECURSIVE WrittenUpTo(_, _, _)
\* the store after the first n writes of the transaction
WrittenUpTo(store, p, n) ==
  IF n = 0 THEN store
  ELSE Written(WrittenUpTo(store, p, n - 1), p, WritesOf(p)[n])

\* the writes are made one by one outside a transaction: those before the
\* failing one stay
WithoutTransaction(store, p, failAt) ==
  WrittenUpTo(store, p, IF failAt = 0 THEN Len(WritesOf(p)) ELSE failAt - 1)

\* db.transaction('rw', ...): all writes are committed, or, when write failAt
\* fails (0: none does), the transaction is aborted and none is
Transaction(store, p, failAt) == IF failAt = 0 THEN Imported(p) ELSE store

\* backupService.import of the payload exported last or of a file's payload
import ==
  \E p \in {payload} \cup FilePayloads :
    \E failAt \in 0..(IF ImportRejects(p) THEN 0 ELSE Len(WritesOf(p))) :
      /\ lastImport' = [result |-> IF ImportRejects(p) THEN "thrown"
                                   ELSE IF failAt > 0 THEN "failed" ELSE "done",
                        payload |-> p, before |-> Store]
      /\ IF ImportRejects(p)
         THEN UNCHANGED <<dbRepositories, dbSyncState, dbSettings, dbVectorStore>>
         ELSE LET after == Transaction(Store, p, failAt)
              IN /\ dbRepositories' = after.repositories
                 /\ dbSyncState' = after.syncState
                 /\ dbSettings' = after.settings
                 /\ dbVectorStore' = after.vectorStore
      /\ UNCHANGED payload

(***************************************************************************)
(* indexRepositories: the readme pool, the AI groups with their fallback   *)
(* to single calls, the index pool and the final save, for one call        *)
(***************************************************************************)
RepoSeq(n) == [k \in 1..n |-> k]

\* slice(start, start + size) with a 0-based start
Slice(s, start, size) == SubSeq(s, start + 1, Min(start + size, Len(s)))

\* batch = repos.slice(start, start + INDEX_BATCH_SIZE)
Batch == Slice(pRepos, pStart, INDEX_BATCH_SIZE)

\* chunk = batch.slice(i, i + AI_BATCH_SIZE)
Chunk == Slice(Batch, pGroup, AI_BATCH_SIZE)

\* the position in repos of the first repository of the current AI group
GroupKey == pStart + pGroup + 1

PipeLocalsIdle ==
  /\ pRepos = <<>>
  /\ pPc = "idle"
  /\ pStart = 0
  /\ pGroup = 0
  /\ pSingle = 0
  /\ pWrite = 0
  /\ readmeMap = {}
  /\ aiMap = {}
  /\ pThrew = {}
  /\ singleCalls = [i \in 1..MaxRepos |-> 0]
  /\ writeCalls = [i \in 1..MaxRepos |-> 0]
  /\ successCount = 0
  /\ pProcessed = 0

\* checkServices has found an API key in the settings
PipeIdle == PipeLocalsIdle /\ openai = TRUE

\* the call, up to the first readme pool; no repositories: return at once
indexRepositoriesOf(repos) ==
  /\ pPc \in {"idle", "returned"}
  /\ pRepos' = repos
  /\ pPc' = IF Len(repos) = 0 THEN "returned" ELSE "readme"
  /\ pStart' = 0
  /\ pGroup' = 0
  /\ pSingle' = 0
  /\ pWrite' = 0
  /\ readmeMap' = {}
  /\ aiMap' = {}
  /\ pThrew' = {}
  /\ singleCalls' = [i \in 1..MaxRepos |-> 0]
  /\ writeCalls' = [i \in 1..MaxRepos |-> 0]
  /\ successCount' = 0
  /\ pProcessed' = 0
  /\ UNCHANGED openai

indexRepositories == \E n \in 0..MaxRepos : indexRepositoriesOf(RepoSeq(n))

\* the readme pool of a batch: a fetch that throws is logged by runWithPool and
\* leaves no entry in readmeMap
fetchReadmes ==
  /\ pPc = "readme"
  /\ \E failed \in FailChoices(Batch) : readmeMap' = Range(Batch) \ failed
  /\ aiMap' = {}
  /\ pGroup' = 0
  /\ pPc' = "ai"
  /\ UNCHANGED <<pRepos, pStart, pSingle, pWrite, pThrew, singleCalls, writeCalls,
                 successCount, pProcessed, openai>>

\* after the AI group at offset i of the batch: the next group, or the index pool
AfterGroup(i) ==
  IF i + AI_BATCH_SIZE < Len(Batch)
  THEN [pc |-> "ai", group |-> i + AI_BATCH_SIZE]
  ELSE [pc |-> "write", group |-> i]

\* what the batch call returns for a group: results for every item, for all
\* but the first, or none (no content, or content that does not parse)
BatchResults == {Range(Chunk), Range(Chunk) \ {Chunk[1]}, {}}

\* generateBatchTagsAndSummary for a group: without a client it throws; with
\* one it returns results or throws; after a throw the single calls follow
generateBatch ==
  /\ pPc = "ai"
  /\ \/ /\ openai
        /\ \E got \in BatchResults : aiMap' = aiMap \cup got
        /\ pPc' = AfterGroup(pGroup).pc
        /\ pGroup' = AfterGroup(pGroup).group
        /\ UNCHANGED pThrew
     \/ /\ pThrew' = pThrew \cup {GroupKey}
        /\ pPc' = "single"
        /\ UNCHANGED <<aiMap, pGroup>>
  /\ pSingle' = 0
  /\ pWrite' = 0
  /\ UNCHANGED <<pRepos, pStart, readmeMap, singleCalls, writeCalls,
                 successCount, pProcessed, openai>>

\* a throw of a single call ends the single calls of its group
AfterSingleAbort(k, outcome) ==
  IF outcome = "throws" THEN Len(Chunk) ELSE k + 1

\* for (const repo of chunk): the position after the single call at position k,
\* whose throw is caught inside the loop
AfterSingle(k, outcome) == k + 1

\* generateTagsAndSummary: a result, null (no content, or content that does
\* not parse) or a throw; without a client it throws
SingleOutcomes == IF openai THEN {"ok", "null", "throws"} ELSE {"throws"}

\* generateTagsAndSummary for one repository of a group whose batch call threw
generateSingle ==
  /\ pPc = "single"
  /\ \E outcome \in SingleOutcomes :
       LET repo == Chunk[pSingle + 1]
           k == AfterSingle(pSingle, outcome)
       IN /\ singleCalls' = [singleCalls EXCEPT ![repo] = @ + 1]
          /\ aiMap' = IF outcome = "ok" THEN aiMap \cup {repo} ELSE aiMap
          /\ IF k < Len(Chunk)
             THEN /\ pSingle' = k
                  /\ UNCHANGED <<pPc, pGroup>>
             ELSE /\ pSingle' = 0
                  /\ pPc' = AfterGroup(pGroup).pc
                  /\ pGroup' = AfterGroup(pGroup).group
  /\ pWrite' = 0
  /\ UNCHANGED <<pRepos, pStart, readmeMap, pThrew, writeCalls, successCount,
                 pProcessed, openai>>

\* the worker of the index pool for one repository: the store update when there
\* is an AI result, vectorService.indexRepo, successCount++ unless one of them
\* threw, processed++ in any case
indexWorker ==
  /\ pPc = "write"
  /\ \E outcome \in {"ok", "throws"} :
       LET repo == Batch[pWrite + 1]
       IN /\ writeCalls' = [writeCalls EXCEPT ![repo] = @ + 1]
          /\ successCount' = IF outcome = "ok" THEN successCount + 1 ELSE successCount
  /\ pProcessed' = pProcessed + 1
  /\ IF pWrite + 1 < Len(Batch)
     THEN /\ pWrite' = pWrite + 1
          /\ UNCHANGED <<pPc, pStart>>
     ELSE /\ pWrite' = 0
          /\ pStart' = pStart + INDEX_BATCH_SIZE
          /\ pPc' = IF pStart + INDEX_BATCH_SIZE < Len(pRepos) THEN "readme" ELSE "save"
  /\ UNCHANGED <<pRepos, pGroup, pSingle, readmeMap, aiMap, pThrew, singleCalls,
                 openai>>

\* vectorService.save(), which logs its own errors, and the return
saveAndReturn ==
  /\ pPc = "save"
  /\ pPc' = "returned"
  /\ UNCHANGED <<pRepos, pStart, pGroup, pSingle, pWrite, readmeMap, aiMap, pThrew,
                 singleCalls, writeCalls, successCount, pProcessed, openai>>

(***************************************************************************)
(* The AI calls of indexRepositories as two steps each: the call, which    *)
(* sends the request and suspends the function at its await, and the       *)
(* continuation when the request settles.                                  *)
(***************************************************************************)
AiIdle ==
  /\ pAwait = FALSE
  /\ aiInFlight = 0

\* the call is made and the loop goes on without waiting for it
Unawaited == FALSE

\* await aiService.generateBatchTagsAndSummary(...), await
\* aiService.generateTagsAndSummary(...)
Awaited == TRUE

\* aiService.generateBatchTagsAndSummary(batchPayload) is called for the group
requestBatch ==
  /\ pPc = "ai"
  /\ ~pAwait
  /\ aiInFlight' = aiInFlight + 1
  /\ pAwait' = Awaited
  /\ UNCHANGED pipeVars

\* the batch request settles and the function goes on from its await
batchSettles ==
  /\ pAwait
  /\ generateBatch
  /\ aiInFlight' = aiInFlight - 1
  /\ pAwait' = FALSE

\* aiService.generateTagsAndSummary(...) is called for one repository
requestSingle ==
  /\ pPc = "single"
  /\ ~pAwait
  /\ aiInFlight' = aiInFlight + 1
  /\ pAwait' = Awaited
  /\ UNCHANGED pipeVars

\* the single request settles and the function goes on from its await
singleSettles ==
  /\ pAwait
  /\ generateSingle
  /\ aiInFlight' = aiInFlight - 1
  /\ pAwait' = FALSE

(***************************************************************************)
(* Enrichment of one repository, as indexRepositories does it for a batch  *)
(* of one (handleReindexOne), with its effects on the store and on the     *)
(* indexes; and the lexical index built from the store on mount            *)
(***************************************************************************)
\* the text of a repository after sync, and with the summary and tags written
SyncedDoc == <<Str_ab>>
EnrichedDoc == <<Str_abce, Str_cd>>

\* the ids the store, the lexical index and the vector index all track
EnrichIds == DocIds \cap VecIds

\* after a sync: every repository has its name and description only
DocsInit == dbDocs = [i \in DocIds |-> SyncedDoc]

\* the mount effect: void searchService.init()
mountInit == initBuild(FALSE, dbDocs)

\* indexRepositories([repo]): the AI result, if any, is written to the store;
\* vectorService.indexRepo stores a new embedding unless getEmbedding throws and
\* adds the entry; vectorService.save.  No request goes to the search worker.
enrichOne ==
  \E i \in EnrichIds, aiResult \in BOOLEAN, embedded \in BOOLEAN, fresh \in Embeddings :
    LET index == IF initialized THEN vdb ELSE LoadedIndex(dbVectorStore)
        embedding == IF vEmbedding[i] # NoEmbedding THEN vEmbedding[i]
                     ELSE IF embedded THEN fresh ELSE NoEmbedding
        added == IF embedding = NoEmbedding THEN index
                 ELSE Indexed(index, i, embedding)
    IN /\ Len(index) < MaxEntries
       /\ vEmbedding[i] = NoEmbedding \/ (embedded /\ fresh = vEmbedding[i])
       /\ dbDocs' = IF aiResult THEN [dbDocs EXCEPT ![i] = EnrichedDoc] ELSE dbDocs
       /\ vEmbedding' = [vEmbedding EXCEPT ![i] = embedding]
       /\ vdb' = added
       /\ initialized' = TRUE
       /\ dbVectorStore' = [present |-> TRUE, version |-> VECTOR_SNAPSHOT_VERSION,
                            hasSnapshot |-> TRUE, snapshot |-> LunaSerialize(added)]

(***************************************************************************)
(* GitHubService.syncStars: the listing is read page by page, newest star  *)
(* first; the items of a page are looked up in the store one by one and    *)
(* the ones to write are put together at the end of the page               *)
(***************************************************************************)
incrementalPageLimit == 3
\* a listing long enough for a page after the page limit
MaxListing == incrementalPageLimit * per_page + 1
\* the listed ids, and one repository that is stored and no longer starred
Unlisted == MaxListing + 1
SyncIds == 1..Unlisted

\* the fields of a record the enrichment writes; 0 is undefined
NoLocal == [ai_summary |-> 0, ai_tags |-> 0, embedding |-> 0, readme_content |-> 0]
Enriched == [ai_summary |-> 1, ai_tags |-> 1, embedding |-> 1, readme_content |-> 1]
EmbeddedOnly == [NoLocal EXCEPT !.embedding = 1]
LocalOf(i) == IF i % 3 = 1 THEN Enriched ELSE IF i % 3 = 2 THEN EmbeddedOnly ELSE NoLocal

\* a record of db.repositories: its metadata is as stored (0) or fresh (1)
NoRow == [present |-> FALSE, meta |-> 0, local |-> NoLocal]
StoredRow(i) == [present |-> TRUE, meta |-> 0, local |-> LocalOf(i)]

\* the first a items of the listing of n were starred after the last sync
Listing(n, a) == [k \in 1..n |-> [id |-> k, after |-> k <= a]]

\* the store: the unlisted repository and the items starred before the last
\* sync, but for the one missed; and one of the later stars that is known
StoreOf(n, a, missed, known) ==
  [i \in SyncIds |->
     IF i = Unlisted \/ (i > a /\ i <= n /\ i # missed) \/ (i = known /\ i <= a)
     THEN StoredRow(i) ELSE NoRow]

SyncIdle ==
  /\ ghRepos = [i \in SyncIds |-> NoRow]
  /\ starred = <<>>
  /\ lastSyncedAt = FALSE
  /\ isIncremental = FALSE
  /\ syPc = "idle"
  /\ page = 1
  /\ seenOldCount = 0
  /\ newReposCount = 0
  /\ syBefore = [i \in SyncIds |-> NoRow]
  /\ syPages = <<>>

\* syncStars is about to be called, after an earlier sync or without one
SyncStart ==
  /\ \E n \in 0..MaxListing :
       \E a \in 0..n :
         \E missed \in {0} \cup (a + 1)..n, known \in 0..Min(a, 1) :
           /\ starred = Listing(n, a)
           /\ ghRepos = StoreOf(n, a, missed, known)
  /\ lastSyncedAt \in BOOLEAN
  /\ isIncremental = FALSE
  /\ syPc = "idle"
  /\ page = 1
  /\ seenOldCount = 0
  /\ newReposCount = 0
  /\ syBefore = ghRepos
  /\ syPages = <<>>

\* the record written for a listed repository that is not kept: the local
\* fields are dropped
mappedRepoBare(existing) == [present |-> TRUE, meta |-> 1, local |-> NoLocal]

\* mappedRepo: fresh metadata, and the local fields of the existing record
mappedRepo(existing) ==
  [present |-> TRUE, meta |-> 1,
   local |-> IF existing.present
             THEN [ai_summary |-> existing.local.ai_summary,
                   ai_tags |-> existing.local.ai_tags,
                   embedding |-> existing.local.embedding,
                   readme_content |-> existing.local.readme_content]
             ELSE NoLocal]

\* the item is stored and its star is not later than the last sync
SeenOld(item) == isIncremental /\ ghRepos[item.id].present /\ ~item.after

RECURSIVE ScanPage(_, _, _)
\* for (const item of repos): the streak of old items and the ids to write
ScanPage(repos, seen, newRepos) ==
  IF Len(repos) = 0 THEN [seen |-> seen, newRepos |-> newRepos]
  ELSE IF SeenOld(Head(repos))
       THEN ScanPage(Tail(repos), seen + 1, newRepos)
       ELSE ScanPage(Tail(repos), 0, Append(newRepos, Head(repos).id))

\* the loop ends at any page that ends with an old item
anyOldInThisPage(seen, written, listed) == isIncremental /\ seen > 0

\* onlyOldInThisPage
onlyOldInThisPage(seen, written, listed) ==
  isIncremental /\ seen >= written /\ written < per_page

NextPage(p) == p + 1

\* syncStars up to its loop: the sync state is read, getUser
syncStars ==
  /\ syPc = "idle"
  /\ isIncremental' = lastSyncedAt
  /\ syPc' = "loop"
  /\ page' = 1
  /\ seenOldCount' = 0
  /\ newReposCount' = 0
  /\ syBefore' = ghRepos
  /\ syPages' = <<>>
  /\ UNCHANGED <<ghRepos, starred, lastSyncedAt>>

\* one turn of the loop: a page is fetched, scanned and written
fetchPage ==
  /\ syPc = "loop"
  /\ LET repos == Slice(starred, (page - 1) * per_page, per_page)
         r == ScanPage(repos, seenOldCount, <<>>)
         written == Len(r.newRepos)
         hitPageLimit == isIncremental /\ page >= incrementalPageLimit
         stop == \/ Len(repos) < per_page
                 \/ hitPageLimit
                 \/ onlyOldInThisPage(r.seen, written, Len(repos))
     IN /\ syPages' = Append(syPages, [page |-> page, listed |-> Len(repos),
                                        written |-> written, seen |-> r.seen])
        /\ IF Len(repos) = 0
           THEN /\ syPc' = "put"
                /\ UNCHANGED <<ghRepos, page, seenOldCount, newReposCount>>
           ELSE /\ ghRepos' = [i \in SyncIds |->
                                IF i \in Range(r.newRepos) THEN mappedRepo(ghRepos[i])
                                ELSE ghRepos[i]]
                /\ newReposCount' = newReposCount + written
                /\ seenOldCount' = r.seen
                /\ page' = IF stop THEN page ELSE NextPage(page)
                /\ syPc' = IF stop THEN "put" ELSE "loop"
  /\ UNCHANGED <<starred, lastSyncedAt, isIncremental, syBefore>>

\* the sync state is put and newReposCount is returned
syncStarsReturn ==
  /\ syPc = "put"
  /\ lastSyncedAt' = TRUE
  /\ syPc' = "returned"
  /\ UNCHANGED <<ghRepos, starred, isIncremental, page, seenOldCount,
                 newReposCount, syBefore, syPages>>

(***************************************************************************)
(* runWithPool: min(limit, items.length) runners, each an async loop that  *)
(* takes the next index and awaits the worker on it.  A step is what runs  *)
(* between two awaits.                                                     *)
(***************************************************************************)
PoolRunners == 1..Max(MaxPoolLimit, INDEX_BATCH_SIZE)
NotStarted == -1
RunnerDone == -2

PoolIdle ==
  /\ poPhase = "idle"
  /\ poItems = 0
  /\ poLimit = 1
  /\ poNext = 0
  /\ poRunner = [r \in PoolRunners |-> NotStarted]
  /\ poCalls = [k \in 0..(INDEX_BATCH_SIZE - 1) |-> 0]

\* a runner is started for every item
RunnersPerItem(limit, n) == n

\* Array.from({ length: Math.min(limit, items.length) }, () => exec())
Runners(limit, n) == Min(limit, n)

\* the call: each exec() runs up to its first await, so runner r has taken
\* index r - 1 and its worker is in flight
runWithPoolOf(n, limit) ==
  /\ poItems' = n
  /\ poLimit' = limit
  /\ poNext' = Runners(limit, n)
  /\ poRunner' = [r \in PoolRunners |->
                    IF r <= Runners(limit, n) THEN r - 1 ELSE NotStarted]
  /\ poCalls' = [k \in 0..(INDEX_BATCH_SIZE - 1) |->
                   IF k < Runners(limit, n) THEN 1 ELSE 0]

\* a call of runWithPool on its own, with any limit
runWithPool ==
  /\ poPhase = "idle"
  /\ \E n \in 0..INDEX_BATCH_SIZE, limit \in 1..MaxPoolLimit : runWithPoolOf(n, limit)
  /\ poPhase' = "call"

\* indexRepositories: the readme pool of a batch
readmePool ==
  /\ poPhase = "idle"
  /\ \E n \in 1..INDEX_BATCH_SIZE : runWithPoolOf(n, README_CONCURRENCY)
  /\ poPhase' = "readme"

\* indexRepositories: the index pool of the batch, after the AI groups
indexPool ==
  /\ poPhase = "ai"
  /\ runWithPoolOf(poItems, INDEX_CONCURRENCY)
  /\ poPhase' = "index"

\* the loop of exec ends at the first worker that throws
LoopEndsAtThrow(threw) == ~threw

\* try { results[idx] = await worker(items[idx], idx) } catch (err)
\* { console.error(err) } inside the while loop: the loop goes on either way
LoopGoesOn(threw) == TRUE

\* the worker of runner r settles, resolved or thrown; the runner takes the
\* next index and calls the worker on it, or its loop ends
execResume(r) ==
  /\ poRunner[r] >= 0
  /\ \E threw \in BOOLEAN :
     IF LoopGoesOn(threw) /\ poNext < poItems
     THEN /\ poRunner' = [poRunner EXCEPT ![r] = poNext]
          /\ poCalls' = [poCalls EXCEPT ![poNext] = @ + 1]
          /\ poNext' = poNext + 1
     ELSE /\ poRunner' = [poRunner EXCEPT ![r] = RunnerDone]
          /\ UNCHANGED <<poCalls, poNext>>
  /\ UNCHANGED <<poPhase, poItems, poLimit>>

\* Promise.all(runners) resolves when every runner's loop has ended
poolReturn ==
  /\ poPhase \in {"call", "readme", "index"}
  /\ \A r \in PoolRunners : poRunner[r] < 0
  /\ poPhase' = IF poPhase = "readme" THEN "ai" ELSE "idle"
  /\ poRunner' = [r \in PoolRunners |-> NotStarted]
  /\ UNCHANGED <<poItems, poLimit, poNext, poCalls>>

(***************************************************************************)
(* handleReindexOne: the re-index button of a repository card              *)
(***************************************************************************)
\* the cards whose button is used
ReindexIds == 1..MaxReindexIds

ReIdle ==
  /\ reindexingId = 0
  /\ reRunning = [i \in ReindexIds |-> 0]

\* the button of card i: rendered enabled unless indexing, syncing or
\* reindexingId === repo.id; setReindexingId(repo.id); indexRepositories([repo])
\* is called and awaited
handleReindexOneClick(i) ==
  /\ i \in stored
  /\ ~indexing /\ ~syncing /\ reindexingId # i
  /\ SumSeq(reRunning) < MaxReindexCalls
  /\ reindexingId' = i
  /\ reRunning' = [reRunning EXCEPT ![i] = @ + 1]
  /\ UNCHANGED jobVars

\* indexRepositories([repo], true) resolves, with the repository enriched or
\* not; finally setReindexingId(null)
handleReindexOneDone(i) ==
  /\ reRunning[i] > 0
  /\ reRunning' = [reRunning EXCEPT ![i] = @ - 1]
  /\ reindexingId' = 0
  /\ \E ok \in BOOLEAN : enriched' = IF ok THEN enriched \cup {i} ELSE enriched
  /\ UNCHANGED <<stored, dbJob, resumeJob, indexing, syncing, processingRef,
                 call, handed, firstQueue, jobsCreated, crashes>>

(***************************************************************************)
(* Calls of performSearch that overlap.  Each call is an async function of *)
(* its own; what it shows, it shows when its last await has resolved.      *)
(***************************************************************************)
SearchCalls == 1..MaxSearches

NoSearch == [pc |-> "none", query |-> <<>>, ai |-> FALSE]

RaceIdle ==
  /\ srIssued = 0
  /\ srCall = [k \in SearchCalls |-> NoSearch]
  /\ srShown = 0
  /\ inputLocked = FALSE

\* the awaits of performSearch in order: the snapshot read, the rewrite (AI
\* search), the retrieval, the query embedding, the rerank (AI search)
AfterAwait(c) ==
  IF c.pc = "snapshot" THEN (IF c.ai THEN "rewrite" ELSE "retrieve")
  ELSE IF c.pc = "rewrite" THEN "retrieve"
  ELSE IF c.pc = "retrieve" THEN "score"
  ELSE IF c.pc = "score" /\ c.ai THEN "rerank"
  ELSE "shown"

\* Enter in the search box, or the debounce timer of a query typed with AI
\* search off: performSearch(searchQuery) runs up to its first await.  The box
\* is disabled while inputLocked.
submitSearch ==
  /\ srIssued < MaxSearches
  /\ ~inputLocked
  /\ \E q \in Queries, ai \in BOOLEAN :
       /\ srCall' = [srCall EXCEPT ![srIssued + 1] =
                       [pc |-> "snapshot", query |-> q, ai |-> ai]]
       /\ inputLocked' = ai
  /\ srIssued' = srIssued + 1
  /\ UNCHANGED srShown

\* an await of call k resolves; after the last one setSearchExplainMap and
\* setAllRepos show the results of this call, and finally setInputLocked(false)
searchAwaited(k) ==
  /\ srCall[k].pc \notin {"none", "shown"}
  /\ srCall' = [srCall EXCEPT ![k].pc = AfterAwait(srCall[k])]
  /\ IF AfterAwait(srCall[k]) = "shown"
     THEN /\ srShown' = k
          /\ inputLocked' = FALSE
     ELSE UNCHANGED <<srShown, inputLocked>>
  /\ UNCHANGED srIssued

\* the next queries: the calls are forgotten, what is shown stays
searchesForgotten ==
  /\ srIssued = MaxSearches
  /\ \A k \in SearchCalls : srCall[k].pc = "shown"
  /\ srIssued' = 0
  /\ srCall' = [k \in SearchCalls |-> NoSearch]
  /\ srShown' = 0
  /\ UNCHANGED inputLocked

(***************************************************************************)
(* Specifications: each runs one part of the program and leaves the rest   *)
(* in its initial state.                                                   *)
(***************************************************************************)
Init ==
  /\ JobInit /\ SearchInit /\ LexInit /\ VecInit /\ EmptyStoreInit /\ PipeIdle
  /\ DocsInit /\ SyncIdle /\ PoolIdle /\ AiIdle /\ ReIdle /\ RaceIdle /\ VecInitIdle

jobFrame ==
  <<searchVars, lexVars, vecVars, backupVars, pipeVars, dbDocs,
    syncVars, poolVars, aiVars, reVars, raceVars, initVars>>

Next ==
  \/ checkPendingJob /\ UNCHANGED jobFrame
  \/ handleIndexClick /\ UNCHANGED jobFrame
  \/ \E p \in Callers : handleIndexFiltered(p) /\ UNCHANGED jobFrame
  \/ \E p \in Callers : handleIndexPut(p) /\ UNCHANGED jobFrame
  \/ \E p \in Callers : LoopRead(p) /\ UNCHANGED jobFrame
  \/ \E p \in Callers : LoopIndex(p) /\ UNCHANGED jobFrame
  \/ \E p \in Callers : LoopPut(p) /\ UNCHANGED jobFrame
  \/ \E p \in Callers : LoopClear(p) /\ UNCHANGED jobFrame
  \/ \E p \in Callers : RunReturn(p) /\ UNCHANGED jobFrame
  \/ handleSyncClick /\ UNCHANGED jobFrame
  \/ handleSyncDone /\ UNCHANGED jobFrame
  \/ Interrupt /\ UNCHANGED jobFrame

Spec == Init /\ [][Next]_vars

reFrame == <<searchVars, lexVars, vecVars, backupVars, pipeVars, dbDocs,
             syncVars, poolVars, aiVars, raceVars, initVars>>

\* the enrichment runs and the re-index buttons of a session
ReindexNext ==
  \/ checkPendingJob /\ UNCHANGED jobFrame
  \/ handleIndexClick /\ UNCHANGED jobFrame
  \/ \E p \in Callers : handleIndexFiltered(p) /\ UNCHANGED jobFrame
  \/ \E p \in Callers : handleIndexPut(p) /\ UNCHANGED jobFrame
  \/ \E p \in Callers : LoopRead(p) /\ UNCHANGED jobFrame
  \/ \E p \in Callers : LoopIndex(p) /\ UNCHANGED jobFrame
  \/ \E p \in Callers : LoopPut(p) /\ UNCHANGED jobFrame
  \/ \E p \in Callers : LoopClear(p) /\ UNCHANGED jobFrame
  \/ \E p \in Callers : RunReturn(p) /\ UNCHANGED jobFrame
  \/ \E i \in ReindexIds : handleReindexOneClick(i) /\ UNCHANGED reFrame
  \/ \E i \in ReindexIds : handleReindexOneDone(i) /\ UNCHANGED reFrame

ReindexSpec == Init /\ [][ReindexNext]_vars

raceFrame == <<jobVars, searchVars, lexVars, vecVars, backupVars, pipeVars,
               dbDocs, syncVars, poolVars, aiVars, reVars, initVars>>

RaceNext ==
  \/ submitSearch /\ UNCHANGED raceFrame
  \/ \E k \in SearchCalls : searchAwaited(k) /\ UNCHANGED raceFrame
  \/ searchesForgotten /\ UNCHANGED raceFrame

RaceSpec == Init /\ [][RaceNext]_vars

initFrame == <<jobVars, searchVars, lexVars, pipeVars, dbDocs, syncVars,
               poolVars, aiVars, reVars, raceVars, dbRepositories, dbSyncState,
               dbSettings, payload, lastImport>>

InitRaceNext ==
  \/ \E c \in InitCalls : initCall(c) /\ UNCHANGED initFrame
  \/ \E c \in InitCalls : initLoaded(c) /\ UNCHANGED initFrame
  \/ indexRepoAdd /\ UNCHANGED initFrame
  \/ vectorSave /\ UNCHANGED <<initFrame, initVars>>
  \/ pageReloaded /\ UNCHANGED initFrame

InitRaceSpec == Init /\ [][InitRaceNext]_vars

\* the job with store calls that can reject
ThrowNext ==
  \/ checkPendingJob /\ UNCHANGED jobFrame
  \/ handleIndexClick /\ UNCHANGED jobFrame
  \/ \E p \in Callers : handleIndexFiltered(p) /\ UNCHANGED jobFrame
  \/ \E p \in Callers : handleIndexPut(p) /\ UNCHANGED jobFrame
  \/ \E p \in Callers : LoopRead(p) /\ UNCHANGED jobFrame
  \/ \E p \in Callers : LoopIndex(p) /\ UNCHANGED jobFrame
  \/ \E p \in Callers : LoopPut(p) /\ UNCHANGED jobFrame
  \/ \E p \in Callers : LoopClear(p) /\ UNCHANGED jobFrame
  \/ \E p \in Callers : RunReturn(p) /\ UNCHANGED jobFrame
  \/ \E p \in Callers : LoopThrows(p) /\ UNCHANGED jobFrame
  \/ handleSyncClick /\ UNCHANGED jobFrame
  \/ handleSyncDone /\ UNCHANGED jobFrame
  \/ Interrupt /\ UNCHANGED jobFrame

ThrowSpec == Init /\ [][ThrowNext]_vars

\* a step of the loop of resumeIndexJob: an awaited call resolves
LoopStep ==
  \E p \in Callers :
    (LoopRead(p) \/ LoopIndex(p) \/ LoopPut(p) \/ LoopClear(p)) /\ UNCHANGED jobFrame

\* the enrichment runs of a session in which no sync is started
RunNext ==
  \/ checkPendingJob /\ UNCHANGED jobFrame
  \/ handleIndexClick /\ UNCHANGED jobFrame
  \/ \E p \in Callers : handleIndexFiltered(p) /\ UNCHANGED jobFrame
  \/ \E p \in Callers : handleIndexPut(p) /\ UNCHANGED jobFrame
  \/ \E p \in Callers : LoopRead(p) /\ UNCHANGED jobFrame
  \/ \E p \in Callers : LoopIndex(p) /\ UNCHANGED jobFrame
  \/ \E p \in Callers : LoopPut(p) /\ UNCHANGED jobFrame
  \/ \E p \in Callers : LoopClear(p) /\ UNCHANGED jobFrame
  \/ \E p \in Callers : RunReturn(p) /\ UNCHANGED jobFrame
  \/ Interrupt /\ UNCHANGED jobFrame

\* every call the loop awaits eventually returns or throws
FairSpec == Init /\ [][RunNext]_vars /\ WF_vars(LoopStep)

searchFrame ==
  <<jobVars, lexVars, vecVars, backupVars, pipeVars, dbDocs,
    syncVars, poolVars, aiVars, reVars, raceVars, initVars>>

SearchNext ==
  \/ performSearchStart /\ UNCHANGED searchFrame
  \/ performSearchEmpty /\ UNCHANGED searchFrame
  \/ performSearchRetrieve /\ UNCHANGED searchFrame
  \/ performSearchScore /\ UNCHANGED searchFrame
  \/ performSearchRerank /\ UNCHANGED searchFrame
  \/ performSearchAgain /\ UNCHANGED searchFrame
  \/ performSearchReset /\ UNCHANGED searchFrame

SearchSpec == Init /\ [][SearchNext]_vars

\* a store of the catalog and items named 'cd'
LargeStoreInit ==
  /\ JobInit
  /\ SearchIdle
  /\ sStore \in {Len(Catalog) + n : n \in FillerCounts}
  /\ LexInit
  /\ VecInit
  /\ EmptyStoreInit
  /\ PipeIdle
  /\ DocsInit /\ SyncIdle /\ PoolIdle /\ AiIdle /\ ReIdle /\ RaceIdle /\ VecInitIdle

TopKNext ==
  \/ performSearchPlain /\ UNCHANGED searchFrame
  \/ performSearchRetrieve /\ UNCHANGED searchFrame
  \/ performSearchScore /\ UNCHANGED searchFrame
  \/ performSearchRerank /\ UNCHANGED searchFrame

TopKSpec == LargeStoreInit /\ [][TopKNext]_vars

lexFrame ==
  <<jobVars, searchVars, vecVars, backupVars, pipeVars, dbDocs,
    syncVars, poolVars, aiVars, reVars, raceVars, initVars>>

LexNext ==
  \/ init /\ UNCHANGED lexFrame
  \/ indexRepo /\ UNCHANGED lexFrame
  \/ searchScored /\ UNCHANGED lexFrame
  \/ onmessageBuild /\ UNCHANGED lexFrame
  \/ onmessageSearch /\ UNCHANGED lexFrame
  \/ onResponse /\ UNCHANGED lexFrame

LexSpec == Init /\ [][LexNext]_vars

\* the service with more calls in flight, over one store, one query
initWide ==
  \E force \in BOOLEAN : initBuildIn(WideCap, force, [i \in DocIds |-> <<Str_ab>>])
indexRepoWide == indexRepoIn(WideCap, {1}, DocVersions)
searchScoredWide == searchScoredIn(WideCap, {Str_ab}, {1}, {"strict", "balanced"})

WorkerNext ==
  \/ initWide /\ UNCHANGED lexFrame
  \/ indexRepoWide /\ UNCHANGED lexFrame
  \/ searchScoredWide /\ UNCHANGED lexFrame
  \/ onmessageBuild /\ UNCHANGED lexFrame
  \/ onmessageSearch /\ UNCHANGED lexFrame
  \/ onResponse /\ UNCHANGED lexFrame

WorkerSpec == Init /\ [][WorkerNext]_vars

vecFrame == <<jobVars, searchVars, lexVars, dbRepositories, dbSyncState,
             dbSettings, payload, lastImport, pipeVars, dbDocs,
    syncVars, poolVars, aiVars, reVars, raceVars, initVars>>

VecNext ==
  \/ vectorInit /\ UNCHANGED vecFrame
  \/ vectorIndexRepo /\ UNCHANGED vecFrame
  \/ vectorSave /\ UNCHANGED vecFrame
  \/ vectorReload /\ UNCHANGED vecFrame

VecSpec == Init /\ [][VecNext]_vars

backupFrame ==
  <<jobVars, searchVars, lexVars, vecVars, pipeVars, dbDocs,
    syncVars, poolVars, aiVars, reVars, raceVars, initVars>>

BackupNext ==
  \/ exportAll /\ UNCHANGED backupFrame
  \/ import /\ UNCHANGED backupFrame

pipeFrame == <<jobVars, searchVars, lexVars, vecVars, backupVars, dbDocs,
    syncVars, poolVars, aiVars, reVars, raceVars, initVars>>

PipeNext ==
  \/ indexRepositories /\ UNCHANGED pipeFrame
  \/ fetchReadmes /\ UNCHANGED pipeFrame
  \/ generateBatch /\ UNCHANGED pipeFrame
  \/ generateSingle /\ UNCHANGED pipeFrame
  \/ indexWorker /\ UNCHANGED pipeFrame
  \/ saveAndReturn /\ UNCHANGED pipeFrame

PipeSpec == Init /\ [][PipeNext]_vars

aiFrame == <<jobVars, searchVars, lexVars, vecVars, backupVars, dbDocs,
             syncVars, poolVars, reVars, raceVars, initVars>>

AiNext ==
  \/ indexRepositories /\ UNCHANGED <<aiFrame, aiVars>>
  \/ fetchReadmes /\ UNCHANGED <<aiFrame, aiVars>>
  \/ requestBatch /\ UNCHANGED aiFrame
  \/ batchSettles /\ UNCHANGED aiFrame
  \/ requestSingle /\ UNCHANGED aiFrame
  \/ singleSettles /\ UNCHANGED aiFrame
  \/ indexWorker /\ UNCHANGED <<aiFrame, aiVars>>
  \/ saveAndReturn /\ UNCHANGED <<aiFrame, aiVars>>

AiSpec == Init /\ [][AiNext]_vars

(***************************************************************************)
(* An enrichment run with its calls of indexRepositories: the loop of      *)
(* resumeIndexJob hands each batch to the pipeline and goes on when the    *)
(* pipeline has returned.                                                  *)
(***************************************************************************)
\* the batch read resolves and indexRepositories is called with the records
LoopReadRun(p) == LoopRead(p) /\ indexRepositoriesOf(BatchRepos(p))

\* the index worker writes a summary and tags for every repository it gets
indexWorkerStoreAll ==
  /\ indexWorker
  /\ enriched' = IF successCount' = successCount + 1
                 THEN enriched \cup {Batch[pWrite + 1]} ELSE enriched
  /\ UNCHANGED <<stored, dbJob, resumeJob, indexing, syncing, processingRef,
                 call, handed, firstQueue, jobsCreated, crashes>>

\* the index worker with its writes to the store: the summary and tags of an
\* AI result, and the embedding; a throw leaves the record without one of them
indexWorkerStore ==
  /\ indexWorker
  /\ LET repo == Batch[pWrite + 1]
     IN enriched' = IF repo \in aiMap /\ successCount' = successCount + 1
                    THEN enriched \cup {repo} ELSE enriched
  /\ UNCHANGED <<stored, dbJob, resumeJob, indexing, syncing, processingRef,
                 call, handed, firstQueue, jobsCreated, crashes>>

\* indexRepositories resolves (it does not throw): successCount and processed
\* are added up, remaining is sliced, and the checkpoint put is issued
LoopIndexRun(p) ==
  /\ call[p].pc = "loop_index"
  /\ pPc = "returned"
  /\ call' = [call EXCEPT
        ![p].pc = "loop_put",
        ![p].processed = ProcessedAfter(p),
        ![p].remaining = RemainingAfter(p)]

passFrame == <<searchVars, lexVars, vecVars, backupVars, dbDocs,
    syncVars, poolVars, aiVars, reVars, raceVars, initVars>>
runFrame == <<stored, enriched, dbJob, resumeJob, indexing, syncing,
              processingRef, handed, firstQueue, jobsCreated, crashes>>

\* checkServices has run: the settings hold an API key or they do not
PassInit ==
  /\ JobInitOf(PassItems) /\ SearchInit /\ LexInit /\ VecInit /\ EmptyStoreInit
  /\ PipeLocalsIdle /\ openai \in BOOLEAN
  /\ DocsInit /\ SyncIdle /\ PoolIdle /\ AiIdle /\ ReIdle /\ RaceIdle /\ VecInitIdle

PassNext ==
  \/ checkPendingJob /\ UNCHANGED jobFrame
  \/ handleIndexClick /\ UNCHANGED jobFrame
  \/ \E p \in Callers : handleIndexFiltered(p) /\ UNCHANGED jobFrame
  \/ \E p \in Callers : handleIndexPut(p) /\ UNCHANGED jobFrame
  \/ \E p \in Callers : LoopReadRun(p) /\ UNCHANGED passFrame
  \/ fetchReadmes /\ UNCHANGED pipeFrame
  \/ generateBatch /\ UNCHANGED pipeFrame
  \/ generateSingle /\ UNCHANGED pipeFrame
  \/ indexWorkerStore /\ UNCHANGED passFrame
  \/ saveAndReturn /\ UNCHANGED pipeFrame
  \/ \E p \in Callers : LoopIndexRun(p) /\ UNCHANGED <<runFrame, jobFrame>>
  \/ \E p \in Callers : LoopPut(p) /\ UNCHANGED jobFrame
  \/ \E p \in Callers : LoopClear(p) /\ UNCHANGED jobFrame
  \/ \E p \in Callers : RunReturn(p) /\ UNCHANGED jobFrame

PassSpec == PassInit /\ [][PassNext]_vars

\* version tags of snapshots written by an earlier build
OldVersions == {[t |-> "string", v |-> "v0"], UndefinedVersion}

\* the index an earlier build saved: one entry for every stored embedding
IndexOf(embeddings) ==
  LET ids == SortedSeq({i \in VecIds : embeddings[i] # NoEmbedding})
  IN [k \in 1..Len(ids) |-> [id |-> ids[k], embeddings |-> embeddings[ids[k]]]]

\* a page load over a store whose snapshot was saved by an earlier build
OldSnapshotInit ==
  /\ JobInit /\ SearchInit /\ LexInit /\ PipeIdle /\ DocsInit /\ SyncIdle /\ PoolIdle /\ AiIdle /\ ReIdle /\ RaceIdle /\ VecInitIdle
  /\ vdb = <<>>
  /\ initialized = FALSE
  /\ vEmbedding \in [VecIds -> Embeddings \cup {NoEmbedding}]
  /\ \E v \in OldVersions :
       dbVectorStore = [present |-> TRUE, version |-> v, hasSnapshot |-> TRUE,
                        snapshot |-> LunaSerialize(IndexOf(vEmbedding))]
  /\ dbRepositories = {}
  /\ dbSyncState = {}
  /\ dbSettings = {}
  /\ payload = NullPayload
  /\ lastImport = NoImport

\* the mount effect calls vectorService.init(); indexRepo and save run only
\* when the user indexes
RebuildSpec ==
  OldSnapshotInit /\ [][VecNext]_vars /\ WF_vars(vectorInit /\ UNCHANGED vecFrame)

enrichLexFrame == <<jobVars, searchVars, vecVars, backupVars, pipeVars, dbDocs,
    syncVars, poolVars, aiVars, reVars, raceVars, initVars>>

EnrichNext ==
  \/ mountInit /\ UNCHANGED enrichLexFrame
  \/ onmessageBuild /\ UNCHANGED enrichLexFrame
  \/ /\ enrichOne
     /\ UNCHANGED <<jobVars, searchVars, lexVars, pipeVars, dbRepositories,
                    dbSyncState, dbSettings, payload, lastImport, syncVars, poolVars, aiVars, reVars, raceVars, initVars>>
  \/ searchScored /\ UNCHANGED enrichLexFrame
  \/ onmessageSearch /\ UNCHANGED enrichLexFrame
  \/ onResponse /\ UNCHANGED enrichLexFrame

EnrichSpec == Init /\ [][EnrichNext]_vars

syncFrame == <<jobVars, searchVars, lexVars, vecVars, backupVars, pipeVars,
               dbDocs, poolVars, aiVars, reVars, raceVars, initVars>>

SyncInit ==
  /\ JobInit /\ SearchInit /\ LexInit /\ VecInit /\ EmptyStoreInit /\ PipeIdle
  /\ DocsInit /\ SyncStart /\ PoolIdle /\ AiIdle /\ ReIdle /\ RaceIdle /\ VecInitIdle

SyncNext ==
  \/ syncStars /\ UNCHANGED syncFrame
  \/ fetchPage /\ UNCHANGED syncFrame
  \/ syncStarsReturn /\ UNCHANGED syncFrame

SyncSpec == SyncInit /\ [][SyncNext]_vars

\* every request syncStars awaits is answered
FairSyncSpec == SyncInit /\ [][SyncNext]_vars /\ WF_vars(SyncNext)

poolFrame == <<jobVars, searchVars, lexVars, vecVars, backupVars, pipeVars,
               dbDocs, syncVars, aiVars, reVars, raceVars, initVars>>

PoolNext ==
  \/ runWithPool /\ UNCHANGED poolFrame
  \/ readmePool /\ UNCHANGED poolFrame
  \/ indexPool /\ UNCHANGED poolFrame
  \/ \E r \in PoolRunners : execResume(r) /\ UNCHANGED poolFrame
  \/ poolReturn /\ UNCHANGED poolFrame

PoolSpec == Init /\ [][PoolNext]_vars

\* the store can be in any state when a backup is made
AnyStoreInit ==
  /\ JobInit /\ SearchInit /\ LexInit /\ VecInit /\ BackupInit /\ PipeIdle
  /\ DocsInit /\ SyncIdle /\ PoolIdle /\ AiIdle /\ ReIdle /\ RaceIdle /\ VecInitIdle

BackupSpec == AnyStoreInit /\ [][BackupNext]_vars


(***************************************************************************)
(* C1: every record persisted under 'index_job' satisfies                  *)
(* done + length(queue) = total, from its creation until it is deleted.    *)
(***************************************************************************)
C1_JobInvariant ==
  dbJob # NoJob => dbJob.done + Len(dbJob.queue) = dbJob.total

\* a checkpoint with a non-empty queue, written by an auto-resumed run
C1_Witness ==
  /\ crashes >= 1
  /\ call["mount"].pc = "loop_read"
  /\ call["mount"].processed > 0
  /\ dbJob # NoJob
  /\ dbJob.queue = call["mount"].remaining
  /\ Len(dbJob.queue) > 0

(***************************************************************************)
(* C2 as stated: after an interruption and a restart from the persisted    *)
(* record, every id of the original queue has been handed to               *)
(* indexRepositories exactly once across the combined runs.                *)
(***************************************************************************)
C2_ExactlyOnceAcrossRuns ==
  (crashes >= 1 /\ jobsCreated = 1 /\ \E p \in Callers : call[p].pc = "finished")
    => \A i \in Range(firstQueue) : handed[i] = 1

(***************************************************************************)
(* C2 amended: a run that completes has handed every id of the queue it    *)
(* was started with exactly once, in queue order, and by then no id of the *)
(* original queue has been skipped (each was handed at least once over the *)
(* combined runs); an id handed before the interruption but not yet        *)
(* removed by a checkpoint is handed again by the restarted run.           *)
(***************************************************************************)
C2_NoSkipOncePerRun ==
  \A p \in Callers :
    call[p].pc = "finished" =>
      /\ call[p].given = call[p].startQueue
      /\ \A i \in Range(firstQueue) : handed[i] >= 1

\* a run restarted from checkpoint N >= 1 completes and an id was handed twice
C2_Witness ==
  /\ crashes >= 1
  /\ call["mount"].pc = "finished"
  /\ call["mount"].done > 0
  /\ \E i \in Range(firstQueue) : handed[i] = 2

(***************************************************************************)
(* C3: single-flight.  At most one caller is inside the loop of            *)
(* resumeIndexJob, and a step of a caller outside the loop taken while     *)
(* processingRef is set neither enters the loop, nor hands an id to        *)
(* indexRepositories, nor releases the guard.                              *)
(***************************************************************************)
RejectedWhileGuarded ==
  \A p \in Callers :
    (processingRef /\ ~InLoop(p) /\ call'[p] # call[p] /\ crashes' = crashes)
      => /\ ~InLoop(p)'
         /\ handed' = handed
         /\ processingRef'

C4_HardPriorityOrdered ==
  sPc = "shown" =>
    \A a, b \in 1..Len(sFinal) :
      a < b => sFinal[a].hardPriority <= sFinal[b].hardPriority

\* the reranker placed a worse-tier candidate ahead of a tier-0 candidate
C4_Witness ==
  /\ sPc = "shown"
  /\ sIn.rerank.kind = "ids"
  /\ \E a, b \in 1..Len(sFinal) :
       /\ a < b
       /\ sFinal[a].hardPriority = 0
       /\ sFinal[b].hardPriority > 0
       /\ sFinal[b].aiRank < sFinal[a].aiRank

(***************************************************************************)
(* C5: ranking is deterministic.  The repetition of a search on the same   *)
(* inputs shows the same id list, and no two candidates of different ids   *)
(* compare equal (firstSeen is unique per candidate).                      *)
(***************************************************************************)
C5_Deterministic ==
  /\ (sPc = "shown" /\ sRun = 2) => sList = sFirstList
  /\ \A a, b \in 1..Len(sStage2) :
       sStage2[a].id # sStage2[b].id =>
         /\ compareCandidates(sStage2[a], sStage2[b]) # 0
         /\ sStage2[a].firstSeen # sStage2[b].firstSeen

\* a repetition has been shown in which firstSeen alone separates two candidates
C5_Witness ==
  /\ sPc = "shown"
  /\ sRun = 2
  /\ \E a, b \in 1..Len(sFinal) :
       /\ a < b
       /\ [sFinal[a] EXCEPT !.firstSeen = 0, !.id = 0]
            = [sFinal[b] EXCEPT !.firstSeen = 0, !.id = 0]

\* the documents the index holds for an id
DocsOf(i) == SelectSeq(mini.docs, LAMBDA d : d.id = i)

\* C6: for every id and every sequence of build requests (full builds with
\* reset, single-document builds, in any order, repeated), the lexical index
\* never holds two documents for the id, and once every posted request is
\* handled it holds exactly one document for an id submitted since the last
\* reset, the version submitted last, and none for an id not submitted.
C6_OneDocLatestVersion ==
  \A i \in DocIds :
    /\ Len(DocsOf(i)) <= 1
    /\ lexInbox = <<>> =>
         IF lexSubmitted[i] = NoDoc THEN DocsOf(i) = <<>>
         ELSE DocsOf(i) = <<[id |-> i, terms |-> lexSubmitted[i]]>>

\* an id already indexed was built again with another version, which replaced it
C6_Witness ==
  /\ lexInbox = <<>>
  /\ lexResp.type = "ready" /\ lexResp.replaced
  /\ \E i \in DocIds :
       /\ lexSubmitted[i] # NoDoc
       /\ DocsOf(i) = <<[id |-> i, terms |-> lexSubmitted[i]]>>

\* the entries the vector index holds for an id
EntriesOf(i) == SelectSeq(vdb, LAMBDA e : e.id = i)

\* C7: the vector index holds at most one entry for an item id, whatever
\* sequence of indexRepo calls was made.
C7_OneEntryPerId == \A i \in VecIds : Len(EntriesOf(i)) <= 1

\* an id was indexed again and the index holds two entries for it
C7_Witness == \E i \in VecIds : Len(EntriesOf(i)) = 2

\* C8: a strict search returns the strict results (up to the limit) when there
\* are any, the balanced results (up to the limit) when strict matching finds
\* none, and an empty list only if balanced matching finds none either.
StrictAnswer ==
  (onmessageSearch /\ Head(lexInbox).mode = "strict") =>
    LET msg == Head(lexInbox)
        strict == MiniSearchResults(mini.docs, msg.query, getSearchOptions("strict"))
        balanced == MiniSearchResults(mini.docs, msg.query,
                                      getSearchOptions("balanced"))
    IN /\ Len(strict) > 0 => lexResp'.hits = Take(strict, msg.limit)
       /\ Len(strict) = 0 => lexResp'.hits = Take(balanced, msg.limit)
       /\ Len(lexResp'.hits) = 0 => Len(balanced) = 0

\* C8: every step of the worker that answers a strict search gives the answer
\* described above
C8_StrictFallback == [][StrictAnswer]_vars

\* a strict search found nothing and answered with the balanced results
C8_Witness ==
  /\ lexResp.type = "searchResult" /\ lexResp.mode = "strict"
  /\ Len(MiniSearchResults(mini.docs, lexResp.query, getSearchOptions("strict"))) = 0
  /\ Len(lexResp.hits) > 0

\* what the round trip has to keep: the repositories and the snapshot record
SameBackup(a, b) ==
  /\ a.repositories = b.repositories
  /\ a.vectorStore = b.vectorStore

\* C9: after exportAll and import of the exported payload the repositories
\* and the snapshot record (its version tag and its bytes) are what they
\* were before, also for a record whose snapshot is empty or absent.
C9_RoundTrip ==
  (lastImport.result = "done" /\ lastImport.payload = ExportedPayload(lastImport.before))
    => SameBackup(Store, lastImport.before)

\* a store with repositories and a snapshot of three bytes or more was
\* exported and imported
C9_Witness ==
  /\ lastImport.result = "done"
  /\ lastImport.payload = ExportedPayload(lastImport.before)
  /\ lastImport.before.repositories # {}
  /\ Len(lastImport.before.vectorStore.snapshot) >= MaxSnapshotLen
  /\ SameBackup(Store, lastImport.before)

\* C10: import throws for a missing payload and for a payload whose version
\* is not exactly the string '1', and then no table of the store is changed;
\* it throws for no other payload.
C10_RejectsWithoutChange ==
  lastImport.result # "none" =>
    /\ lastImport.result = "thrown" <=>
         (lastImport.payload.isNull
            \/ lastImport.payload.version # [t |-> "string", v |-> "1"])
    /\ lastImport.result = "thrown" => Store = lastImport.before

\* a payload of version 2 was refused by a store that holds repositories
C10_Witness ==
  /\ lastImport.result = "thrown"
  /\ ~lastImport.payload.isNull
  /\ lastImport.payload.version = [t |-> "string", v |-> "2"]
  /\ dbRepositories # {} /\ dbRepositories # lastImport.payload.repositories

\* an iteration of the loop drops min(6, remaining) >= 1 ids from the queue and
\* counts as many as processed, and its checkpoint raises done by that number
IterationAdvances ==
  \A p \in Callers :
    /\ (call[p].pc = "loop_index" /\ call'[p].pc = "loop_put") =>
         LET n == Min(INDEX_BATCH_SIZE, Len(call[p].remaining))
         IN /\ n >= 1
            /\ call'[p].remaining = Drop(call[p].remaining, n)
            /\ call'[p].processed = call[p].processed + n
    /\ (call[p].pc = "loop_put" /\ call'[p].pc \in {"loop_read", "clear"}) =>
         /\ dbJob'.queue = call[p].remaining
         /\ dbJob'.done = call[p].done + call[p].processed

\* a run that is in the loop ends with the job record deleted, unless the page
\* is closed or reloaded first
RunEnds ==
  \A p \in Callers : \A k \in 0..MaxCrashes :
    (InLoop(p) /\ crashes = k)
      ~> ((call[p].pc = "finished" /\ dbJob = NoJob) \/ crashes > k)

(***************************************************************************)
(* C11: an enrichment run cannot stall.  Whatever items fail in a chunk,   *)
(* every iteration of the loop of resumeIndexJob removes min(6, remaining) *)
(* >= 1 ids from the queue and raises done by the same amount, and, every  *)
(* awaited call returning or throwing eventually, the run ends with the    *)
(* job record deleted.                                                     *)
(***************************************************************************)
C11_CannotStall == [][IterationAdvances]_vars /\ RunEnds

\* a run of more than one chunk ended, the record is deleted, and items of its
\* queue failed
C11_Witness ==
  \E p \in Callers :
    /\ call[p].pc = "finished"
    /\ dbJob = NoJob
    /\ Len(call[p].startQueue) > INDEX_BATCH_SIZE
    /\ Range(call[p].startQueue) \ enriched # {}

\* the position in repos of the first repository of the AI group of position k
GroupKeyOf(k) ==
  LET start == ((k - 1) \div INDEX_BATCH_SIZE) * INDEX_BATCH_SIZE
      i == (((k - 1) % INDEX_BATCH_SIZE) \div AI_BATCH_SIZE) * AI_BATCH_SIZE
  IN start + i + 1

(***************************************************************************)
(* C12: when the batch call of an AI group throws, a single call is made   *)
(* exactly once for each item of the group, also after a single call that  *)
(* failed; no single call is made for a group whose batch call returned;   *)
(* later groups and batches are processed, and every repository reaches    *)
(* the index worker exactly once.                                          *)
(***************************************************************************)
C12_FallbackPerItem ==
  /\ \A i \in 1..MaxRepos : singleCalls[i] <= 1 /\ writeCalls[i] <= 1
  /\ pPc \in {"save", "returned"} =>
       \A k \in 1..Len(pRepos) :
         /\ singleCalls[pRepos[k]] = IF GroupKeyOf(k) \in pThrew THEN 1 ELSE 0
         /\ writeCalls[pRepos[k]] = 1

\* the batch calls of both groups of a batch threw, a single call failed, and
\* the call returned
C12_Witness ==
  /\ pPc = "returned"
  /\ Cardinality(pThrew) >= 2
  /\ \E i \in Range(pRepos) : singleCalls[i] = 1 /\ i \notin aiMap
  /\ \A i \in Range(pRepos) : writeCalls[i] = 1

\* the step of checkPendingJob after its read of the job record
AutoResume ==
  (call["mount"].pc = "check" /\ call'["mount"].pc # "check") =>
    IF dbJob # NoJob /\ Len(dbJob.queue) > 0
    THEN /\ resumeJob' = dbJob
         /\ processingRef'
         /\ IF processingRef
            THEN ~InLoop("mount")' /\ indexing' = indexing
            ELSE /\ call'["mount"].pc = "loop_read"
                 /\ call'["mount"].remaining = dbJob.queue
                 /\ call'["mount"].done = dbJob.done
                 /\ call'["mount"].total = dbJob.total
                 /\ call'["mount"].processed = 0
                 /\ indexing'
    ELSE /\ ~InLoop("mount")'
         /\ processingRef' = processingRef
         /\ indexing' = indexing
         /\ resumeJob' = resumeJob

(***************************************************************************)
(* C13: on mount, a persisted job record with a non-empty queue starts a   *)
(* run with exactly the persisted queue, done and total, through the       *)
(* processingRef guard of resumeIndexJob (a call that finds the guard held *)
(* is turned away like any other); without such a record, or with an empty *)
(* queue, no run is started.                                               *)
(***************************************************************************)
C13_AutoResume == [][AutoResume]_vars

\* after a reload the run was resumed from a checkpoint with done > 0
C13_Witness ==
  /\ crashes >= 1
  /\ call["mount"].pc = "loop_read"
  /\ call["mount"].processed = 0
  /\ call["mount"].done > 0
  /\ call["mount"].startQueue = dbJob.queue
  /\ call["mount"].done = dbJob.done
  /\ call["mount"].total = dbJob.total

\* init has run over a snapshot of another version, which is still the stored one
MismatchLoaded ==
  /\ initialized
  /\ dbVectorStore.present /\ dbVectorStore.hasSnapshot
  /\ dbVectorStore.version # VECTOR_SNAPSHOT_VERSION

\* every stored embedding has an entry in the vector index
AllEmbeddedIndexed ==
  \A i \in VecIds : vEmbedding[i] # NoEmbedding => Len(EntriesOf(i)) >= 1

(***************************************************************************)
(* C14: after VectorService.init has found a snapshot of another version,  *)
(* a full rebuild follows: the vector index eventually holds an entry for  *)
(* every item of the store that has an embedding; and nothing of the       *)
(* mismatching snapshot is loaded (the index starts empty, or with the one *)
(* entry of the indexRepo call that initialised it).                       *)
(***************************************************************************)
C14_RebuildFollows ==
  /\ [](MismatchLoaded => <>AllEmbeddedIndexed)
  /\ [][(~initialized /\ MismatchLoaded') =>
          (vdb' = <<>> \/ (vectorIndexRepo /\ Len(vdb') = 1))]_vars

\* init has run over an old snapshot, the store holds embeddings, the index is
\* empty
C14_Witness ==
  /\ MismatchLoaded
  /\ \A i \in VecIds : vEmbedding[i] # NoEmbedding
  /\ vdb = <<>>

\* the pipeline has written the summary and tags of i and its embedding
Processed(i) == dbDocs[i] = EnrichedDoc /\ vEmbedding[i] # NoEmbedding

(***************************************************************************)
(* C15: once the pipeline has processed a repository and written its       *)
(* summary, tags and readme to the store, the vector index holds its id    *)
(* and, every request to the worker being handled, the lexical index holds *)
(* its updated document, so that a search for a term of the new summary    *)
(* finds it.                                                               *)
(***************************************************************************)
C15_BothIndexesReflect ==
  \A i \in EnrichIds :
    Processed(i) =>
      /\ Len(EntriesOf(i)) >= 1
      /\ (InitResolved /\ lexInbox = <<>>) =>
           DocsOf(i) = <<[id |-> i, terms |-> dbDocs[i]]>>

\* a repository was processed and is in the vector index, and a search that
\* only the text of its new summary matches was answered with no hit
C15_Witness ==
  \E i \in EnrichIds :
    /\ Processed(i)
    /\ Len(EntriesOf(i)) >= 1
    /\ lexResp.type = "searchResult"
    /\ lexResp.query = Str_abcf
    /\ lexResp.mode = "balanced"
    /\ DocScore(getSearchOptions("balanced"), Str_abcf,
                [id |-> i, terms |-> dbDocs[i]]) > 0
    /\ lexResp.hits = <<>>

\* the repository named 'ab-cd': the query 'ab cd' with a hyphen for the blank
HyphenNamed == 2
\* the repository that has the words of the query in its readme only
ReadmeHeavy == 3

\* the position of an id in a list of candidates, 0 when it is not there
PlaceOf(cands, i) ==
  IF \E k \in 1..Len(cands) : cands[k].id = i
  THEN CHOOSE k \in 1..Len(cands) : cands[k].id = i
  ELSE 0

(***************************************************************************)
(* C16: for the query 'ab cd' the repository named exactly 'ab-cd' gets    *)
(* hardPriority 0 and is first in the final list, also when its stage-1    *)
(* and vector scores are lower than those of a repository that has the     *)
(* words in its readme.                                                    *)
(***************************************************************************)
C16_ExactNameFirst ==
  (sPc = "shown" /\ OriginalQuery(sIn) = Str_ab_cd
     /\ PlaceOf(sFinal, HyphenNamed) > 0) =>
    /\ sFinal[PlaceOf(sFinal, HyphenNamed)].hardPriority = 0
    /\ PlaceOf(sFinal, HyphenNamed) = 1

\* without AI search the hyphen-named repository is shown first with
\* hardPriority 5, the readme-heavy one having the higher stage-1 and code score
C16_Witness ==
  /\ sPc = "shown"
  /\ OriginalQuery(sIn) = Str_ab_cd
  /\ ~sIn.useAiSearch
  /\ PlaceOf(sFinal, HyphenNamed) = 1
  /\ sFinal[1].hardPriority = 5
  /\ PlaceOf(sFinal, ReadmeHeavy) > 1
  /\ sFinal[PlaceOf(sFinal, ReadmeHeavy)].stage1Score > sFinal[1].stage1Score
  /\ sFinal[PlaceOf(sFinal, ReadmeHeavy)].codeScore > sFinal[1].codeScore

\* the ids of the candidates handed to the reranker
TopIds == {sStage2[k].id : k \in 1..Min(Len(sStage2), STAGE3_TOP_K)}

\* a search is shown whose reranker returned a non-empty list of distinct
\* ids of the candidates it was given
SubsetResponse ==
  /\ sPc = "shown"
  /\ sIn.rerank.kind = "ids"
  /\ Len(sIn.rerank.ids) > 0
  /\ \A k \in 1..Len(sIn.rerank.ids) : sIn.rerank.ids[k] \in TopIds
  /\ \A j, k \in 1..Len(sIn.rerank.ids) :
       sIn.rerank.ids[j] = sIn.rerank.ids[k] => j = k

Returned(i) == \E k \in 1..Len(sIn.rerank.ids) : sIn.rerank.ids[k] = i

\* returned candidates have their position (from 0) in the response as
\* aiRank, the others the sentinel and their stage-2 relative order
RanksAsReturned ==
  /\ \A k \in 1..Len(sFinal) :
       IF Returned(sFinal[k].id)
       THEN \E p \in 1..Len(sIn.rerank.ids) :
              sIn.rerank.ids[p] = sFinal[k].id /\ sFinal[k].aiRank = p - 1
       ELSE sFinal[k].aiRank = MAX_SAFE_INTEGER
  /\ \A j, k \in 1..Len(sFinal) :
       (j < k /\ ~Returned(sFinal[j].id) /\ ~Returned(sFinal[k].id)) =>
         PlaceOf(sStage2, sFinal[j].id) < PlaceOf(sStage2, sFinal[k].id)

\* in a list of candidates no returned candidate follows one not returned
ReturnedFirst(cands) ==
  \A j, k \in 1..Len(cands) :
    j < k => ~(~Returned(cands[j].id) /\ Returned(cands[k].id))

\* the keys compareCandidates looks at before aiRank
KeysBeforeAiRank(c) ==
  <<c.hardPriority, c.titleScore, c.descScore, c.readmeScore, c.codeScore>>

(***************************************************************************)
(* C18 as stated: after a rerank that returned a non-empty ordered subset  *)
(* of the top-K ids, returned candidates have their position as aiRank,    *)
(* the others keep the sentinel and their stage-2 order, and in the final  *)
(* list every candidate not returned comes after every returned one.       *)
(***************************************************************************)
C18_NotReturnedLast ==
  SubsetResponse => (RanksAsReturned /\ ReturnedFirst(sFinal))

(***************************************************************************)
(* C18, amended: the ranks and the stage-2 order are as stated; the        *)
(* candidates not returned are appended after the returned ones in the     *)
(* list before the final sort; in the final list a candidate not returned  *)
(* precedes a returned one only when it differs from it in hardPriority,   *)
(* titleScore, descScore, readmeScore or codeScore.                        *)
(***************************************************************************)
C18_RerankBreaksTies ==
  SubsetResponse =>
    /\ RanksAsReturned
    /\ ReturnedFirst(Merged(sStage2, sIn.rerank))
    /\ \A j, k \in 1..Len(sFinal) :
         (j < k /\ ~Returned(sFinal[j].id) /\ Returned(sFinal[k].id)) =>
           KeysBeforeAiRank(sFinal[j]) # KeysBeforeAiRank(sFinal[k])

\* two candidates are returned in an order other than that of stage 2, one
\* not returned is shown before them and one after them
C18_Witness ==
  /\ SubsetResponse
  /\ Len(sIn.rerank.ids) = 2
  /\ PlaceOf(sStage2, sIn.rerank.ids[1]) > PlaceOf(sStage2, sIn.rerank.ids[2])
  /\ ~Returned(sFinal[1].id)
  /\ \E k \in 1..Len(sFinal) : Returned(sFinal[k].id) /\ sFinal[k].aiRank = 1
  /\ ~Returned(sFinal[Len(sFinal)].id)

\* the normalized name or full name of the item is, or contains, the
\* normalized query or one of its variants
NameMatches(in, i) ==
  LET name == normalizeText(RepoOf(i).name)
      full == normalizeText(RepoOf(i).full_name)
      qs == {OriginalQuery(in)} \cup Range(QueryVariants(in))
  IN \E q \in qs : name = q \/ full = q \/ Includes(name, q) \/ Includes(full, q)

(***************************************************************************)
(* C19: for a non-empty query every item of the snapshot whose normalized  *)
(* name or full name equals or contains the normalized query or a variant  *)
(* is a stage-1 candidate with a positive score, also when neither the     *)
(* lexical nor the vector search returned it.                              *)
(***************************************************************************)
C19_RecallSafetyNet ==
  sPc \in {"score", "rerank", "shown"} =>
    \A i \in SnapshotIds(sIn.size) :
      NameMatches(sIn, i) =>
        \E k \in 1..Len(sStage1) :
          sStage1[k].id = i /\ sStage1[k].stage1Score > 0

\* neither search returned anything; the items whose name contains the
\* variant 'ab' are candidates by their boost of 1.6, the item named 'ab'
\* by its boost of 3.5
C19_Witness ==
  /\ sPc = "score"
  /\ sIn.vector = <<>>
  /\ \A m \in {"strict", "balanced", "broad"} : sIn.hits[m] = <<>>
  /\ \E k \in 1..Len(sStage1) :
       sStage1[k].id = 4 /\ sStage1[k].stage1Score = 76800
  /\ \E k \in 1..Len(sStage1) :
       sStage1[k].id = 1 /\ sStage1[k].stage1Score = 168000
  /\ \E i \in RepoIds : ~NameMatches(sIn, i)

\* performSearch is called: the step that leaves the idle or the shown
\* position with the query of the call in sIn
CalledWithBlank ==
  /\ sPc \in {"idle", "shown"}
  /\ sPc' \notin {"idle", "shown"}
  /\ Trim(sIn'.query) = <<>>

(***************************************************************************)
(* C20: a query that is empty or only whitespace is a reset: the call      *)
(* makes no lexical search, no vector search and no AI call, clears the    *)
(* score explanation, shows every item of the store and ends there.        *)
(***************************************************************************)
C20_EmptyQueryResets ==
  [][CalledWithBlank =>
       /\ sCalls' = sCalls
       /\ sExplain' = {}
       /\ Len(sList') = sStore
       /\ Range(sList') = SnapshotIds(sStore)
       /\ sPc' = "reset"]_vars

\* a query of two blanks after a search that had made calls to all three
\* services: the list is the store's items, latest first
C20_Witness ==
  /\ sPc = "reset"
  /\ sIn.query = <<" ", " ">>
  /\ sCalls.lexical > 0 /\ sCalls.vector > 0 /\ sCalls.ai > 2
  /\ sExplain = {}
  /\ sList = <<2, 4, 1, 5, 3>>

\* the item has a vector similarity of 0.9 or more, is in no lexical hit
\* list, and none of its fields contains a token of the query
VectorOnly(in, i) ==
  LET repo == RepoOf(i)
      fields == <<repo.name, repo.full_name, repo.description, repo.ai_summary,
                  JoinWith(repo.ai_tags, <<" ">>), JoinWith(repo.topics, <<" ">>),
                  repo.readme_content>>
      toks == QueryTokens(in)
  IN /\ VectorSimOf(in, i) >= 900
     /\ \A m \in {"strict", "balanced", "broad"} :
          \A k \in 1..Len(in.hits[m]) : in.hits[m][k].id # i
     /\ \A f \in 1..Len(fields), t \in 1..Len(toks) :
          ~Includes(normalizeText(fields[f]), toks[t])

\* the number of stage-1 candidates that compareCandidates puts before the
\* candidate of item i once they are scored
Ahead(in, stage1, i) ==
  LET scored == [k \in 1..Len(stage1) |-> ScoreCandidate(in, stage1[k])]
      own == scored[PlaceOf(stage1, i)]
  IN Cardinality({k \in 1..Len(scored) : compareCandidates(scored[k], own) < 0})

(***************************************************************************)
(* C17 as stated: an item the vector search returned with a similarity of  *)
(* about 0.9 and no lexical overlap with the query is in the final list,   *)
(* whatever the size of the store and the other candidates.                *)
(***************************************************************************)
C17_VectorOnlyAlwaysShown ==
  sPc = "shown" =>
    \A i \in SnapshotIds(sIn.size) :
      VectorOnly(sIn, i) => \E k \in 1..Len(sList) : sList[k] = i

(***************************************************************************)
(* C17, amended: such an item is in the final list exactly when fewer than *)
(* STAGE2_TOP_K stage-1 candidates are put before it by the compound key.  *)
(***************************************************************************)
C17_ShownWithinTopK ==
  sPc = "shown" =>
    \A i \in SnapshotIds(sIn.size) :
      VectorOnly(sIn, i) =>
        ((\E k \in 1..Len(sList) : sList[k] = i)
           <=> Ahead(sIn, sStage1, i) < STAGE2_TOP_K)

\* the item named 'ab' is the last of exactly STAGE2_TOP_K shown items: all
\* candidates before it have a title match, it has its code score only
C17_Witness ==
  /\ sPc = "shown"
  /\ VectorOnly(sIn, 1)
  /\ Len(sList) = STAGE2_TOP_K
  /\ sList[STAGE2_TOP_K] = 1
  /\ Ahead(sIn, sStage1, 1) = STAGE2_TOP_K - 1
  /\ sFinal[STAGE2_TOP_K].titleScore = 0
  /\ sFinal[STAGE2_TOP_K].codeScore > 0

\* how many messages of a sequence carry the id
CountId(xs, i) == Cardinality({k \in 1..Len(xs) : xs[k].id = i})

\* the response types the worker has for a request type
ResponseTypes(t) ==
  IF t = "build" THEN {"ready", "error"} ELSE {"searchResult", "error"}

\* the calls of postMessage whose response has not been received
InFlight ==
  {a \in 1..Len(lexSent) :
     CountId(lexInbox, lexSent[a].id) + CountId(lexOutbox, lexSent[a].id) > 0}

(***************************************************************************)
(* C21: every request has its own id; a request is waiting at the worker,  *)
(* or has exactly one response of its type and id on the way, or has had   *)
(* exactly one delivered to the caller that sent it; pending holds the     *)
(* callers of the requests without a delivered response, and no others.    *)
(***************************************************************************)
C21_Correlated ==
  /\ \A a, b \in 1..Len(lexSent) : lexSent[a].id = lexSent[b].id => a = b
  /\ \A a \in 1..Len(lexSent) :
       CountId(lexInbox, lexSent[a].id) + CountId(lexOutbox, lexSent[a].id)
         + Cardinality({k \in 1..Len(lexDelivered) : lexDelivered[k].caller = a})
         = 1
  /\ \A k \in 1..Len(lexOutbox) :
       \E a \in 1..Len(lexSent) :
         /\ lexSent[a].id = lexOutbox[k].id
         /\ lexOutbox[k].type \in ResponseTypes(lexSent[a].type)
  /\ \A k \in 1..Len(lexDelivered) :
       /\ lexDelivered[k].caller \in 1..Len(lexSent)
       /\ lexSent[lexDelivered[k].caller].id = lexDelivered[k].id
       /\ lexDelivered[k].type \in ResponseTypes(lexSent[lexDelivered[k].caller].type)
  /\ pending = {[id |-> lexSent[a].id, caller |-> a] : a \in InFlight}

\* a build and a search are in flight together, the search already answered
\* and the build still waiting, after the first build was delivered as ready
C21_Witness ==
  /\ \E a, b \in InFlight :
       /\ lexSent[a].type = "search" /\ CountId(lexOutbox, lexSent[a].id) = 1
       /\ lexSent[b].type = "build" /\ CountId(lexInbox, lexSent[b].id) = 1
  /\ Cardinality(pending) = 2
  /\ Len(lexDelivered) = 1
  /\ lexDelivered[1].type = "ready"

IdsOf(xs) == [k \in 1..Len(xs) |-> xs[k].id]

\* the worker takes the request at the head of its queue
WorkerTakes(t) ==
  /\ Len(lexInbox) > 0
  /\ Head(lexInbox).type = t
  /\ lexInbox' = Tail(lexInbox)

\* after is before with every document of the request in it: the last one
\* given for an id, once; of the earlier documents those with other ids are
\* kept, unless the request resets the index
AppliedWhole(before, msg, after) ==
  LET given == {msg.docs[k].id : k \in 1..Len(msg.docs)}
      last(i) == msg.docs[CHOOSE k \in 1..Len(msg.docs) :
                            /\ msg.docs[k].id = i
                            /\ \A j \in (k + 1)..Len(msg.docs) : msg.docs[j].id # i]
      kept == IF msg.reset THEN {}
              ELSE {before[k] : k \in {j \in 1..Len(before) : before[j].id \notin given}}
  IN /\ Range(after) = {last(i) : i \in given} \cup kept
     /\ \A j, k \in 1..Len(after) : after[j].id = after[k].id => j = k

(***************************************************************************)
(* C22: the worker handles the requests in the order they were posted, one *)
(* request per step; a build request is applied whole in its step, and a   *)
(* search is answered from the index the builds before it left, which it   *)
(* does not change.                                                        *)
(***************************************************************************)
C22_Serialized ==
  /\ [](IdsOf(lexDelivered) \o IdsOf(lexOutbox) \o IdsOf(lexInbox)
          = IdsOf(lexSent))
  /\ [][WorkerTakes("build") =>
          /\ ~mini'.isNull
          /\ AppliedWhole(mini.docs, Head(lexInbox), mini'.docs)
          /\ lexOutbox' = Append(lexOutbox, [id |-> Head(lexInbox).id,
                                             type |-> "ready"])]_vars
  /\ [][WorkerTakes("search") =>
          /\ mini'.docs = mini.docs
          /\ lexResp'.id = Head(lexInbox).id
          /\ \A k \in 1..Len(lexResp'.hits) :
               HasDoc(mini.docs, lexResp'.hits[k].id)]_vars

\* a search is answered while a forced rebuild and an update of document 1
\* wait behind it; the index it reads holds both documents of the first build
C22_Witness ==
  /\ lexResp.type = "searchResult"
  /\ Len(lexResp.hits) > 0
  /\ Len(lexOutbox) = 1 /\ lexOutbox[1].id = lexResp.id
  /\ Len(lexInbox) = 2
  /\ lexInbox[1].type = "build" /\ lexInbox[2].type = "build"
  /\ lexInbox[1].reset # lexInbox[2].reset
  /\ Len(mini.docs) = MaxDocIds

\* the ids the persisted job has dropped from the queue it was created with
CheckpointedPast == Range(firstQueue) \ Range(dbJob.queue)

(***************************************************************************)
(* C23: while the AI client is not initialised, an enrichment run stops at *)
(* the failed AI request: no repository goes to the index pool, and the    *)
(* persisted job keeps done at 0 and in its queue every item that has no   *)
(* summary.                                                                *)
(***************************************************************************)
C23_NoClientHalts ==
  ~openai =>
    /\ \A i \in 1..MaxRepos : writeCalls[i] = 0
    /\ dbJob # NoJob => (dbJob.done = 0 /\ CheckpointedPast \subseteq enriched)

\* without a client every batch call and every single call has thrown, every
\* repository went through the index pool as a success, and the checkpoint
\* counts all of them done with an empty queue, none with a summary
C23_Witness ==
  /\ ~openai
  /\ pThrew # {}
  /\ \A i \in Range(firstQueue) : singleCalls[i] = 1 /\ writeCalls[i] = 1
  /\ successCount = Len(firstQueue)
  /\ dbJob = MkJob(<<>>, Len(firstQueue), Len(firstQueue))
  /\ Len(firstQueue) > AI_BATCH_SIZE
  /\ enriched = {}

\* the AI groups of the call are done; resumeIndexJob calls indexRepositories
\* with one batch
AiDone == pPc \in {"write", "save", "returned"} /\ Len(pRepos) <= INDEX_BATCH_SIZE

\* the repositories of the call whose batch response came (the call did not
\* throw) and held no result for them
Affected ==
  IF AiDone
  THEN {pRepos[k] : k \in {j \in 1..Len(pRepos) :
                             pRepos[j] \notin aiMap /\ GroupKeyOf(j) \notin pThrew}}
  ELSE {}

JobPending == (dbJob # NoJob /\ Len(dbJob.queue) > 0) \/ processingRef

\* handleIndex is called by p and takes the path that computes a new job
ComputesNewJob(p) == call[p].pc \in {"idle", "sync_fetch"} /\ call'[p].pc = "hi_filter"

\* the put of a newly computed job record by p
PutsNewJob(p) == call[p].pc = "hi_put" /\ call'[p].pc # "hi_put"

(***************************************************************************)
(* C25: while a job with a non-empty queue is persisted or a run is in     *)
(* progress, no call of handleIndex takes the path that computes a new     *)
(* job, and no new job record is put over the persisted one.               *)
(***************************************************************************)
C25_ResumesNeverOverwrites ==
  [][\A p \in Callers :
       JobPending => ~ComputesNewJob(p) /\ ~PutsNewJob(p)]_vars

\* the run resumed on mount is in its loop, its checkpoint has advanced, and
\* the persisted record is a job just computed by handleIndex, done 0
C25_Witness ==
  \E p \in {"user", "sync"} :
    /\ InLoop("mount")
    /\ call["mount"].done + call["mount"].processed > 0
    /\ processingRef
    /\ call[p].pc = "idle"
    /\ jobsCreated = 2
    /\ dbJob.done = 0
    /\ dbJob.queue # call["mount"].remaining

(***************************************************************************)
(* C26: at every point of a sync, full or incremental, every repository    *)
(* that was stored when syncStars was called is still stored with the      *)
(* ai_summary, ai_tags, embedding and readme_content it had, whether it    *)
(* was skipped as old, rewritten with fresh metadata, or is not listed.    *)
(***************************************************************************)
C26_SyncKeepsLocalData ==
  \A i \in SyncIds :
    syBefore[i].present =>
      /\ ghRepos[i].present
      /\ ghRepos[i].local = syBefore[i].local
      /\ ghRepos[i].meta = 0 => ghRepos[i] = syBefore[i]

\* an incremental sync has returned: an enriched repository was rewritten
\* with fresh metadata and a listed one with an embedding was skipped as old
C26_Witness ==
  /\ syPc = "returned"
  /\ isIncremental
  /\ \E i, j \in 1..Len(starred) :
       /\ syBefore[i].present /\ syBefore[i].local = Enriched
       /\ ghRepos[i] = [present |-> TRUE, meta |-> 1, local |-> Enriched]
       /\ syBefore[j].present /\ syBefore[j].local = EmbeddedOnly
       /\ ghRepos[j].meta = 0
  /\ newReposCount > 1

\* the loop of syncStars has ended
SyncLoopDone == syPc \in {"put", "returned"}

\* after the page of entry e the conditions of line 129 end the loop
EndsLoop(e) ==
  \/ e.listed < per_page
  \/ isIncremental /\ e.page >= incrementalPageLimit
  \/ isIncremental /\ e.seen >= e.written /\ e.written < per_page

\* the pages after which a further page was fetched
Passed == {k \in 1..Len(syPages) : k < Len(syPages) \/ ~SyncLoopDone}

(***************************************************************************)
(* C27 as stated: in incremental mode no further page is fetched after a   *)
(* page that ends in a streak of items already stored and starred no later *)
(* than the last sync; and the call returns.                               *)
(***************************************************************************)
C27_StopsAfterAnyStreak ==
  /\ [](isIncremental => \A k \in Passed : syPages[k].seen = 0)
  /\ <>(syPc = "returned")

(***************************************************************************)
(* C27: a further page is fetched after a page exactly when the page was   *)
(* full and, in incremental mode, it was not yet page 3 and the streak of  *)
(* old items at its end (counted across pages) was shorter than the number *)
(* of items written from it; pages are fetched in order; the call returns. *)
(***************************************************************************)
C27_StopRule ==
  /\ [](\A k \in 1..Len(syPages) :
          /\ syPages[k].page = k
          /\ k \in Passed <=> ~EndsLoop(syPages[k]))
  /\ [](isIncremental => Len(syPages) <= incrementalPageLimit)
  /\ <>(syPc = "returned")

\* an incremental sync has returned after two pages: the first one ended in a
\* streak of two old items after three written ones, and the second page was
\* fetched; there the streak went on and ended the loop
C27_Witness ==
  /\ syPc = "returned"
  /\ isIncremental
  /\ Len(syPages) = 2
  /\ syPages[1].written > syPages[1].seen /\ syPages[1].seen > 1
  /\ syPages[2].listed = per_page
  /\ syPages[2].written = 0
  /\ syPages[2].seen = syPages[1].seen + per_page

(***************************************************************************)
(* C28: after an import that succeeded the repositories, syncState and     *)
(* settings tables hold exactly the records of the payload; after an       *)
(* import in which a write failed, whichever write it was, the four tables *)
(* are what they were before the call.                                     *)
(***************************************************************************)
C28_ImportAtomic ==
  /\ lastImport.result = "done" =>
       /\ dbRepositories = lastImport.payload.repositories
       /\ dbSyncState = lastImport.payload.syncState
       /\ dbSettings = lastImport.payload.settings
  /\ lastImport.result = "failed" => Store = lastImport.before

\* a write of the import of a payload with repositories and settings failed;
\* the store holds its other repositories and its snapshot as before
C28_Witness ==
  /\ lastImport.result = "failed"
  /\ lastImport.payload.repositories # {} /\ lastImport.payload.settings # {}
  /\ dbRepositories # {}
  /\ dbRepositories \cap lastImport.payload.repositories = {}
  /\ dbVectorStore.present
  /\ Store = lastImport.before

\* the worker invocations in flight: the runners that await their worker
InFlightWorkers == {r \in PoolRunners : poRunner[r] >= 0}

(***************************************************************************)
(* C29: at no time are more than limit worker invocations of a call of     *)
(* runWithPool in flight, whatever the number of items and the order in    *)
(* which the workers settle; while the readme pool of a batch runs at most *)
(* 3 fetches are in flight, and at most 3 index writes while its index     *)
(* pool runs.                                                              *)
(***************************************************************************)
C29_PoolBounded ==
  /\ Cardinality(InFlightWorkers) <= poLimit
  /\ poPhase = "readme" => Cardinality(InFlightWorkers) <= 3
  /\ poPhase = "index" => Cardinality(InFlightWorkers) <= 3
  /\ poPhase \in {"idle", "ai"} => InFlightWorkers = {}
  /\ \A a, b \in InFlightWorkers : poRunner[a] = poRunner[b] => a = b

\* the index pool of a batch of 6 has its 3 workers in flight, on items that
\* are not the first three: the runners have gone on in another order
C29_Witness ==
  /\ poPhase = "index"
  /\ poItems = INDEX_BATCH_SIZE
  /\ Cardinality(InFlightWorkers) = INDEX_CONCURRENCY
  /\ poNext = poItems
  /\ poRunner[1] > poRunner[3]

\* the step calls the batch function for the AI group at the current offset
BatchRequested == pPc = "ai" /\ aiInFlight' = aiInFlight + 1

\* the offsets in the current batch of the AI groups before the current one
EarlierGroups == {g \in 0..(pGroup - 1) : g % AI_BATCH_SIZE = 0}

\* the group at offset g of the current batch is done: its batch call returned,
\* or it threw and a single call was made for each of its repositories
GroupCompleted(g) ==
  pStart + g + 1 \in pThrew =>
    \A k \in 1..Len(Slice(Batch, g, AI_BATCH_SIZE)) :
      singleCalls[Slice(Batch, g, AI_BATCH_SIZE)[k]] >= 1

(***************************************************************************)
(* C30: during a call of indexRepositories at most one AI request, batch   *)
(* or single, is in flight at any time; a batch request is issued only     *)
(* when none is in flight and, for every earlier group of the batch, the   *)
(* batch call and all the single calls that followed its throw are done.   *)
(***************************************************************************)
C30_OneAiRequest ==
  [][/\ aiInFlight <= 1
     /\ aiInFlight' <= 1
     /\ BatchRequested =>
          /\ aiInFlight = 0
          /\ \A g \in EarlierGroups : GroupCompleted(g)]_vars

\* the batch call of the second group of a batch is in flight, after the batch
\* call of the first group threw and its four single calls settled
C30_Witness ==
  /\ pPc = "ai"
  /\ pGroup = AI_BATCH_SIZE
  /\ pAwait
  /\ aiInFlight = 1
  /\ pStart + 1 \in pThrew
  /\ \A k \in 1..AI_BATCH_SIZE : singleCalls[Batch[k]] = 1

\* s is a suffix of t
IsSuffix(s, t) ==
  Len(s) <= Len(t) /\ s = SubSeq(t, Len(t) - Len(s) + 1, Len(t))

\* the ids the run of p has handed to indexRepositories and that are in the
\* persisted queue
HandedAndQueued(p) == Range(call[p].given) \cap Range(dbJob.queue)

\* the checkpoint put of the run of p resolves in this step
Checkpoints(p) == call[p].pc = "loop_put" /\ call'[p].pc \in {"loop_read", "clear"}

(***************************************************************************)
(* C31: while a run of resumeIndexJob is in its loop the persisted queue   *)
(* is a suffix of the queue the run was called with, at most 6 of the ids  *)
(* the run has handed to indexRepositories are in the persisted queue, and *)
(* each checkpoint removes min(6, length) ids from the front of the        *)
(* persisted queue.                                                        *)
(***************************************************************************)
C31_CheckpointedSuffix ==
  /\ [](\A p \in Callers : InLoop(p) =>
          /\ IsSuffix(dbJob.queue, call[p].startQueue)
          /\ Cardinality(HandedAndQueued(p)) <= INDEX_BATCH_SIZE)
  /\ [][\A p \in Callers : Checkpoints(p) =>
          dbJob'.queue = Drop(dbJob.queue, Min(INDEX_BATCH_SIZE, Len(dbJob.queue)))]_vars

\* the run resumed on mount has handed 7 ids to indexRepositories, none was
\* enriched, and a job computed meanwhile by handleIndex is persisted: all 7
\* are in the persisted queue
C31_Witness ==
  /\ InLoop("mount")
  /\ jobsCreated = 2
  /\ Cardinality(HandedAndQueued("mount")) > INDEX_BATCH_SIZE
  /\ ~IsSuffix(dbJob.queue, call["mount"].remaining)

\* no call of handleIndex is in progress and no loop of resumeIndexJob is active
NoIndexWork ==
  \A p \in Callers : call[p].pc \notin {"hi_filter", "hi_put"} /\ ~InLoop(p)

(***************************************************************************)
(* C32: when no call of handleIndex is in progress and no loop of          *)
(* resumeIndexJob is active, indexing is false, so the Index and the Sync  *)
(* button are enabled.                                                     *)
(***************************************************************************)
C32_IndexingOnlyWhileRunning == NoIndexWork => ~indexing

\* every stored repository is enriched, Index was clicked, handleIndex found
\* nothing to do and returned: indexing is still true and no button can be used
C32_Witness ==
  /\ NoIndexWork
  /\ stored = enriched
  /\ \A p \in Callers : call[p].pc = "idle"
  /\ ~processingRef /\ ~syncing
  /\ indexing
  /\ ~ENABLED handleIndexClick
  /\ ~ENABLED handleSyncClick

\* the run of p ends in this step, and not by the page being closed
RunExits(p) == InLoop(p) /\ ~InLoop(p)' /\ crashes' = crashes

(***************************************************************************)
(* C33: whenever a run of resumeIndexJob ends, by its return or by a store *)
(* call that throws, processingRef is false afterwards.                    *)
(***************************************************************************)
C33_GuardReleased ==
  [][\A p \in Callers : RunExits(p) => ~processingRef']_vars

\* a run has ended on a rejected store call: no call is in progress, a job
\* with a non-empty queue is persisted, and the guard is still set
C33_Witness ==
  /\ \A p \in Callers : call[p].pc = "idle"
  /\ crashes = 0
  /\ dbJob # NoJob /\ Len(dbJob.queue) > 0
  /\ resumeJob = dbJob
  /\ processingRef
  /\ indexing

\* the calls of indexRepositories that are executing: the one of a run of
\* resumeIndexJob and those of handleReindexOne
ExecutingCalls ==
  Cardinality({p \in Callers : call[p].pc = "loop_index"}) + SumSeq(reRunning)

(***************************************************************************)
(* C34: at most one call of indexRepositories is executing at any time: a  *)
(* call made by handleReindexOne overlaps neither with the call of a bulk  *)
(* run nor with the call of another handleReindexOne.                      *)
(***************************************************************************)
C34_OneEnrichmentCaller == ExecutingCalls <= 1

\* two cards are being re-indexed and a bulk run, started from the Index
\* button meanwhile, has called indexRepositories for its first batch
C34_Witness ==
  /\ reRunning[1] = 1 /\ reRunning[2] = 1
  /\ call["user"].pc = "loop_index"
  /\ Range(call["user"].batchIds) \cap ReindexIds # {}

\* how often the id is in the list of candidates
Occurrences(cands, i) == Cardinality({k \in 1..Len(cands) : cands[k].id = i})

\* the search ran stage 3 with a response of the reranker
RerankAnswered == sPc = "shown" /\ sIn.rerank.kind = "ids"

(***************************************************************************)
(* C35: whatever ids the reranker returns, the final list has the length   *)
(* of the stage-2 list and holds every candidate of it exactly once, and   *)
(* no other item.                                                          *)
(***************************************************************************)
C35_RerankPermutes ==
  RerankAnswered =>
    /\ Len(sFinal) = Len(sStage2)
    /\ \A k \in 1..Len(sStage2) : Occurrences(sFinal, sStage2[k].id) = 1
    /\ \A k \in 1..Len(sFinal) : Occurrences(sStage2, sFinal[k].id) = 1
    /\ Len(sList) = Len(sStage2)

\* the reranker named one candidate twice: the shown list is one longer than
\* the stage-2 list and has that candidate in its first two places
C35_Witness ==
  /\ RerankAnswered
  /\ Len(sIn.rerank.ids) = 2
  /\ sIn.rerank.ids[1] = sIn.rerank.ids[2]
  /\ Len(sStage2) >= 2
  /\ Len(sList) = Len(sStage2) + 1
  /\ sList[1] = sList[2]
  /\ Occurrences(sStage2, sList[1]) = 1

\* rankRepositories was called and threw, or returned no id
RerankFailed ==
  /\ sPc = "shown"
  /\ sIn.rerank.kind = "throw" \/ (sIn.rerank.kind = "ids" /\ sIn.rerank.ids = <<>>)

\* rewriteSearchQuery was called and returned null: it failed, or had no content
RewriteFailed == sPc = "shown" /\ sIn.useAiSearch /\ sIn.rewrite = NoRewrite

\* the final list is the stage-2 list, in its order, every aiRank the sentinel,
\* and it is the list shown
Stage2Shown ==
  /\ sFinal = sStage2
  /\ \A k \in 1..Len(sFinal) : sFinal[k].aiRank = MAX_SAFE_INTEGER
  /\ Len(sStage2) > 0 => sList = [k \in 1..Len(sStage2) |-> sStage2[k].id]

(***************************************************************************)
(* C36 as stated: when the rerank call throws or returns no id, or when    *)
(* the rewrite call fails, the search is shown with the stage-2 list in    *)
(* stage-2 order as its final list, every aiRank at the sentinel.          *)
(***************************************************************************)
C36_AnyAiFailureKeepsStage2 == (RerankFailed \/ RewriteFailed) => Stage2Shown

(***************************************************************************)
(* C36, amended: when the rerank call throws or returns no id, whether the *)
(* rewrite call failed or not, the final list is the stage-2 list in       *)
(* stage-2 order, every aiRank at the sentinel.  A failed rewrite alone    *)
(* does not keep the rerank from reordering the list.                      *)
(***************************************************************************)
C36_RerankFailureKeepsStage2 == RerankFailed => Stage2Shown

\* the rewrite failed and the rerank threw, with at least two candidates
C36_Witness ==
  /\ RerankFailed /\ RewriteFailed
  /\ sIn.rerank.kind = "throw"
  /\ Len(sStage2) >= 2
  /\ Stage2Shown

\* two calls of performSearch were made and both have shown their results
BothShown ==
  /\ srIssued >= 2
  /\ srCall[1].pc = "shown" /\ srCall[2].pc = "shown"

(***************************************************************************)
(* C37: when two searches were issued one after the other and both have    *)
(* completed, the list and the explanation displayed are those of the one  *)
(* issued later.                                                           *)
(***************************************************************************)
C37_LatestQueryShown == BothShown => srShown = 2

\* the search for 'ab' was issued first and the search for 'ab cd' second;
\* the second completed first, and the results of 'ab' are displayed
C37_Witness ==
  /\ BothShown
  /\ srCall[1].query = Str_ab /\ srCall[2].query = Str_ab_cd
  /\ ~srCall[1].ai /\ ~srCall[2].ai
  /\ srShown = 1

\* the ids that have an entry in the index
IndexedIds == {vdb[k].id : k \in 1..Len(vdb)}

(***************************************************************************)
(* C38: of the calls of init on one VectorService at most one sets up the  *)
(* index, and every entry indexRepo has added after a call of init         *)
(* completed is in the index, whatever other calls of init are running.    *)
(***************************************************************************)
C38_InitOnce ==
  /\ Cardinality({c \in InitCalls : viPc[c] = "done"}) <= 1
  /\ vAdded \subseteq IndexedIds

\* a snapshot without id 2 is stored; two calls of init ran together, id 2
\* was added after the first completed, and the second replaced the index
C38_Witness ==
  /\ initialized
  /\ viPc[1] = "done" /\ viPc[2] = "done"
  /\ dbVectorStore.present
  /\ 2 \in vAdded
  /\ 2 \notin IndexedIds
  /\ vdb = LunaDeserialize(dbVectorStore.snapshot)

\* the call of runWithPool has returned: its phase is over
PoolReturned == poPhase \in {"idle", "ai"}

(***************************************************************************)
(* C39: runWithPool calls the worker exactly once on every item: never     *)
(* twice on an index, never on an index beyond the input, and when the     *)
(* call has returned, once on each index; it returns only when no worker   *)
(* is in flight; workers that throw change none of this.                   *)
(***************************************************************************)
C39_EveryItemOnce ==
  /\ [](\A k \in 0..(INDEX_BATCH_SIZE - 1) :
          /\ poCalls[k] <= 1
          /\ k >= poItems => poCalls[k] = 0
          /\ PoolReturned /\ k < poItems => poCalls[k] = 1)
  /\ [][~PoolReturned /\ PoolReturned' => InFlightWorkers = {}]_vars

\* a call on 5 items with 2 runners has returned
C39_Witness ==
  /\ poPhase = "idle"
  /\ poItems = 5
  /\ poLimit = 2
  /\ \A k \in 0..4 : poCalls[k] = 1
  /\ InFlightWorkers = {}

====
